---- MODULE Spec2Model ----
(***************************************************************************)
(* UNALIGNED PER codec of asn1rs (src/src/protocol/per/unaligned/mod.rs):  *)
(* the PackedWrite and PackedRead operations over a bit buffer.            *)
(*                                                                         *)
(* 64-bit machine integers are kept at their width: a word is four 16-bit  *)
(* limbs, most significant first, and arithmetic wraps or panics as the    *)
(* build decides (overflow checks on: debug, off: release).                *)
(* The bit buffer is a sequence of segments: a run of bits of a word, or a *)
(* run of bits of a payload source, so that payloads of 64K units and more *)
(* are handled by their positions.                                         *)
(***************************************************************************)
EXTENDS Integers, Sequences, FiniteSets, TLC

VARIABLES
    checks,     \* TRUE: the build panics on integer overflow; FALSE: it wraps
    writer,     \* the bits written so far: a sequence of segments
    log,        \* the calls made, in order, a write call with its outcome
    rpos,       \* the reader's read position, in bits
    rlen,       \* the reader's visible length, in bits
    rlog        \* the outcomes of the read calls made, in order

vars == <<checks, writer, log, rpos, rlen, rlog>>

(***************************************************************************)
(* Machine words                                                           *)
(***************************************************************************)
Limb == 2^16

\* the word of a number 0 <= n < 2^31
ToW(n) == <<0, 0, n \div Limb, n % Limb>>

U64_MAX == <<Limb - 1, Limb - 1, Limb - 1, Limb - 1>>
I64_MAX == <<(Limb \div 2) - 1, Limb - 1, Limb - 1, Limb - 1>>
I64_MIN == <<Limb \div 2, 0, 0, 0>>

\* the number of a word below 2^31
ToInt(w) == w[3] * Limb + w[4]

\* unsigned comparison
ULt(a, b) == \E i \in 1..4 : a[i] < b[i] /\ \A j \in 1..(i - 1) : a[j] = b[j]
ULe(a, b) == a = b \/ ULt(a, b)

\* signed (two's complement) comparison
Neg(a) == a[1] >= Limb \div 2
ILt(a, b) == IF Neg(a) # Neg(b) THEN Neg(a) ELSE ULt(a, b)

\* a + b and a - b modulo 2^64, with the carry and the borrow
AddW(a, b) ==
    LET s4 == a[4] + b[4]
        s3 == a[3] + b[3] + (s4 \div Limb)
        s2 == a[2] + b[2] + (s3 \div Limb)
        s1 == a[1] + b[1] + (s2 \div Limb)
    IN  [w |-> <<s1 % Limb, s2 % Limb, s3 % Limb, s4 % Limb>>,
         over |-> s1 >= Limb]

SubW(a, b) ==
    LET d4 == a[4] - b[4]
        d3 == a[3] - b[3] - (IF d4 < 0 THEN 1 ELSE 0)
        d2 == a[2] - b[2] - (IF d3 < 0 THEN 1 ELSE 0)
        d1 == a[1] - b[1] - (IF d2 < 0 THEN 1 ELSE 0)
    IN  [w |-> <<d1 % Limb, d2 % Limb, d3 % Limb, d4 % Limb>>,
         over |-> d1 < 0]

\* u64 `a + b` and `a - b`: the overflow flag says the checked build panics
UAdd(a, b) == AddW(a, b)
USub(a, b) == SubW(a, b)

\* i64 `a - b`: overflows when the signs differ and the result leaves a's sign
ISub(a, b) ==
    LET d == SubW(a, b).w
    IN  [w |-> d, over |-> Neg(a) # Neg(b) /\ Neg(d) # Neg(a)]

\* u64::saturating_sub
SaturatingSub(a, b) == IF ULt(a, b) THEN ToW(0) ELSE SubW(a, b).w

\* number of bits of a limb value (0 for 0)
RECURSIVE LimbBits(_)
LimbBits(x) == IF x = 0 THEN 0 ELSE 1 + LimbBits(x \div 2)

\* u64::leading_zeros
leading_zeros(w) ==
    IF w = ToW(0) THEN 64
    ELSE LET i == CHOOSE k \in 1..4 : w[k] # 0 /\ \A j \in 1..(k - 1) : w[j] = 0
         IN  16 * (i - 1) + (16 - LimbBits(w[i]))

\* i64::leading_ones
leading_ones(w) ==
    leading_zeros(<<Limb - 1 - w[1], Limb - 1 - w[2], Limb - 1 - w[3], Limb - 1 - w[4]>>)

\* bit j of a word, j = 0 the most significant, j = 63 the least
WBit(w, j) == (w[(j \div 16) + 1] \div (2^(15 - (j % 16)))) % 2

\* w / 2^k for 0 < k < 16
ShiftLimb(w, k, i) ==
    (w[i] \div (2^k)) + (IF i = 1 THEN 0 ELSE (w[i - 1] % (2^k)) * (2^(16 - k)))
ShiftRight(w, k) ==
    <<ShiftLimb(w, k, 1), ShiftLimb(w, k, 2), ShiftLimb(w, k, 3), ShiftLimb(w, k, 4)>>

\* the word of the 64 bits B[0] .. B[63], B[0] the most significant
WordOfBits(B) ==
    LET RECURSIVE Acc(_, _)
        Acc(i, j) == IF j = 16 THEN 0
                     ELSE B[16 * (i - 1) + j] * (2^(15 - j)) + Acc(i, j + 1)
    IN  <<Acc(1, 0), Acc(2, 0), Acc(3, 0), Acc(4, 0)>>

\* `as u8`
AsU8(w) == w[4] % 256

(***************************************************************************)
(* Option<u64>: <<>> is None, <<w>> is Some(w)                             *)
(***************************************************************************)
NoneW == <<>>
Some(w) == <<w>>
const_is_some(o) == o # <<>>
const_unwrap_or(o, d) == IF o # <<>> THEN o[1] ELSE d

(***************************************************************************)
(* Constants of the codec                                                  *)
(***************************************************************************)
BYTE_LEN == 8
FRAGMENT_SIZE == 16 * 1024
MAX_FRAGMENTS == 4
MIN_FRAGMENT_SIZE == FRAGMENT_SIZE
MAX_FRAGMENTS_SIZE == FRAGMENT_SIZE * MAX_FRAGMENTS
LENGTH_127 == 127
LENGTH_16K == 16 * 1024
LENGTH_64K == 64 * 1024
SMALL_NON_NEGATIVE_NUMBER == 64

(***************************************************************************)
(* Bit streams                                                             *)
(***************************************************************************)
\* bits from .. from+len-1 of the 64 bits of word w
IntSeg(w, from, len) == [kind |-> "int", w |-> w, pat |-> 0, from |-> from, len |-> len]
\* bits from .. from+len-1 of payload source pat
SrcSeg(pat, from, len) == [kind |-> "src", w |-> ToW(0), pat |-> pat, from |-> from, len |-> len]

\* the payload sources: all zero, all one, and a pattern of period 3
SrcBit(pat, i) ==
    CASE pat = 0 -> 0
      [] pat = 1 -> 1
      [] OTHER   -> IF i % 3 = 0 THEN 1 ELSE 0

SegBit(s, j) == IF s.kind = "int" THEN WBit(s.w, s.from + j) ELSE SrcBit(s.pat, s.from + j)

RECURSIVE BitLen(_)
BitLen(segs) == IF segs = <<>> THEN 0 ELSE Head(segs).len + BitLen(Tail(segs))

\* bit p (from 0) of a stream; p < BitLen(segs)
RECURSIVE BitAt(_, _)
BitAt(segs, p) ==
    IF p < Head(segs).len THEN SegBit(Head(segs), p)
    ELSE BitAt(Tail(segs), p - Head(segs).len)

\* the n bits from bit p on, as a stream; p + n <= BitLen(segs)
RECURSIVE Slice(_, _, _)
Slice(segs, p, n) ==
    IF n = 0 \/ segs = <<>> THEN <<>>
    ELSE LET s == Head(segs)
         IN  IF p >= s.len THEN Slice(Tail(segs), p - s.len, n)
             ELSE LET k == IF s.len - p < n THEN s.len - p ELSE n
                  IN  <<[s EXCEPT !.from = s.from + p, !.len = k]>>
                        \o Slice(Tail(segs), 0, n - k)

\* the same bits with empty segments dropped and adjoining runs of one payload joined
RECURSIVE Norm(_)
Norm(segs) ==
    IF segs = <<>> THEN <<>>
    ELSE LET s == Head(segs)
             r == Norm(Tail(segs))
         IN  IF s.len = 0 THEN r
             ELSE IF r # <<>> /\ s.kind = "src" /\ r[1].kind = "src" /\ r[1].pat = s.pat
                     /\ r[1].from = s.from + s.len
                  THEN <<[s EXCEPT !.len = s.len + r[1].len]>> \o Tail(r)
                  ELSE <<s>> \o r

\* two streams hold the same bits
SameBits(a, b) ==
    /\ BitLen(a) = BitLen(b)
    /\ \/ Norm(a) = Norm(b)
       \/ \A i \in 0..(BitLen(a) - 1) : BitAt(a, i) = BitAt(b, i)

\* the n <= 64 bits at p as a word, right-aligned: from_be_bytes of an 8-byte buffer
\* filled by read_bits_with_offset(bytes, 64 - n)
WordLimb(segs, p, n, i) ==
    LET B(j) == IF j >= 64 - n THEN BitAt(segs, p + j - (64 - n)) ELSE 0
        RECURSIVE Acc(_)
        Acc(j) == IF j = 16 THEN 0
                  ELSE B(16 * (i - 1) + j) * (2^(15 - j)) + Acc(j + 1)
    IN  Acc(0)
WordAt(segs, p, n) ==
    <<WordLimb(segs, p, n, 1), WordLimb(segs, p, n, 2),
      WordLimb(segs, p, n, 3), WordLimb(segs, p, n, 4)>>

(***************************************************************************)
(* BitWrite: the buffer's primitive writes append and never fail.  A slice *)
(* is a segment: Bytes(w) is w.to_be_bytes(), Src(pat) a payload source.   *)
(***************************************************************************)
Bytes(w) == IntSeg(w, 0, 64)
Src(pat) == SrcSeg(pat, 0, 0)

write_bit(bit) == <<IntSeg(ToW(IF bit THEN 1 ELSE 0), 63, 1)>>
write_bits(s) == <<s>>
write_bits_with_offset(s, off) == <<[s EXCEPT !.from = s.from + off, !.len = s.len - off]>>
write_bits_with_offset_len(s, off, n) == <<[s EXCEPT !.from = s.from + off, !.len = n]>>

(***************************************************************************)
(* Outcomes of a write call: the bits it appended (also when it fails),    *)
(* and Ok(ret), Err(e(ea)) or a panic.                                     *)
(***************************************************************************)
OkW(out, ret) ==
    [k |-> "ok", e |-> "", ea |-> <<>>, out |-> out, ret |-> ret, tr |-> <<>>]
ErrW(e, ea, out) ==
    [k |-> "err", e |-> e, ea |-> ea, out |-> out, ret |-> NoneW, tr |-> <<>>]
PanicW(out) ==
    [k |-> "panic", e |-> "overflow", ea |-> <<>>, out |-> out, ret |-> NoneW, tr |-> <<>>]
\* Then with the bits of first taken back when second fails
Then_rollback(first, second) ==
    IF first.k # "ok" THEN first
    ELSE IF second.k # "ok" THEN second
    ELSE [second EXCEPT !.out = first.out \o second.out, !.tr = first.tr \o second.tr]

\* `first?; second`: the outcome of second after first's bits, or first's failure
Then(first, second) ==
    IF first.k # "ok" THEN first
    ELSE [second EXCEPT !.out = first.out \o second.out, !.tr = first.tr \o second.tr]

(***************************************************************************)
(* PackedWrite.  ck is the build's overflow checking.                      *)
(***************************************************************************)
RECURSIVE write_length_determinant(_, _, _, _)

\* chapter 11.3
write_non_negative_binary_integer(ck, lower_bound, upper_bound, value) ==
    IF lower_bound = NoneW /\ upper_bound = NoneW
    THEN LET offset == leading_zeros(value) \div 8
             len == 8 - offset
         IN  Then(write_length_determinant(ck, NoneW, NoneW, ToW(len)),
                  OkW(write_bits(IntSeg(value, 8 * offset, 64 - 8 * offset)), NoneW))
    ELSE LET lower == const_unwrap_or(lower_bound, ToW(0))
             upper == const_unwrap_or(upper_bound, I64_MAX)
             range == USub(upper, lower)
             offset_bits == leading_zeros(range.w)
             bytes == USub(value, lower)
         IN  IF ck /\ (range.over \/ bytes.over) THEN PanicW(<<>>)
             ELSE OkW(write_bits_with_offset(Bytes(bytes.w), offset_bits), NoneW)

\* write_constrained_whole_number with the range check after the value is written
write_constrained_whole_number_checked_late(ck, lower_bound, upper_bound, value) ==
    LET range == ISub(upper_bound, lower_bound)
        v == ISub(value, lower_bound)
    IN  IF ck /\ range.over THEN PanicW(<<>>)
        ELSE IF ILt(ToW(0), range.w)
        THEN Then(IF ck /\ v.over THEN PanicW(<<>>)
                  ELSE write_non_negative_binary_integer(ck, NoneW, Some(range.w), v.w),
                  IF ILt(value, lower_bound) \/ ILt(upper_bound, value)
                  THEN ErrW("ValueNotInRange", <<value, lower_bound, upper_bound>>, <<>>)
                  ELSE OkW(<<>>, NoneW))
        ELSE OkW(<<>>, NoneW)

\* chapter 11.5
write_constrained_whole_number(ck, lower_bound, upper_bound, value) ==
    LET range == ISub(upper_bound, lower_bound)
    IN  IF ck /\ range.over THEN PanicW(<<>>)
        ELSE IF ILt(ToW(0), range.w)
        THEN IF ILt(value, lower_bound) \/ ILt(upper_bound, value)
             THEN ErrW("ValueNotInRange", <<value, lower_bound, upper_bound>>, <<>>)
             ELSE LET v == ISub(value, lower_bound)
                  IN  IF ck /\ v.over THEN PanicW(<<>>)
                      ELSE write_non_negative_binary_integer(ck, NoneW, Some(range.w), v.w)
        ELSE OkW(<<>>, NoneW)

\* write_normally_small_non_negative_whole_number with `value > 64` for the
\* unconstrained form: 64 is written in 6 bits, as 0
write_normally_small_non_negative_whole_number_gt_64(ck, value) ==
    LET greater_or_equal_to_64 == ULt(ToW(SMALL_NON_NEGATIVE_NUMBER), value)
    IN  Then(OkW(write_bit(greater_or_equal_to_64), NoneW),
             IF greater_or_equal_to_64
             THEN write_non_negative_binary_integer(ck, NoneW, NoneW, value)
             ELSE write_non_negative_binary_integer(
                      ck, NoneW, Some(ToW(SMALL_NON_NEGATIVE_NUMBER - 1)), value))

\* chapter 11.6
write_normally_small_non_negative_whole_number(ck, value) ==
    LET greater_or_equal_to_64 == ~ULt(value, ToW(SMALL_NON_NEGATIVE_NUMBER))
    IN  Then(OkW(write_bit(greater_or_equal_to_64), NoneW),
             IF greater_or_equal_to_64
             THEN write_non_negative_binary_integer(ck, NoneW, NoneW, value)
             ELSE write_non_negative_binary_integer(
                      ck, NoneW, Some(ToW(SMALL_NON_NEGATIVE_NUMBER - 1)), value))

\* chapter 11.9.3
write_normally_small_length(ck, value) ==
    write_normally_small_non_negative_whole_number(ck, value)

\* write_length_determinant_unbounded with `value <= LENGTH_16K` for the long form:
\* 16384 is written in 14 bits, as 0, and no chunk size is returned
write_length_determinant_unbounded_le_16K(ck, value) ==
    IF ULe(value, ToW(LENGTH_127))
    THEN Then(OkW(write_bit(FALSE), NoneW),
         Then(write_non_negative_binary_integer(ck, NoneW, Some(ToW(LENGTH_127)), value),
              OkW(<<>>, NoneW)))
    ELSE IF ULe(value, ToW(LENGTH_16K))
    THEN Then(OkW(write_bit(TRUE) \o write_bit(FALSE), NoneW),
         Then(write_non_negative_binary_integer(
                  ck, NoneW, Some(ToW(LENGTH_16K - 1)), value),
              OkW(<<>>, NoneW)))
    ELSE LET multiple == LET m == AsU8(ShiftRight(value, 14))
                         IN  IF m < MAX_FRAGMENTS THEN m ELSE MAX_FRAGMENTS
         IN  OkW(write_bit(TRUE) \o write_bit(TRUE)
                   \o write_bits_with_offset(IntSeg(ToW(multiple), 56, 8), 2),
                 Some(ToW(multiple * LENGTH_16K)))

\* write_length_determinant_unbounded with the long form returning Some(value)
write_length_determinant_unbounded_long_some(ck, value) ==
    IF ULe(value, ToW(LENGTH_127))
    THEN Then(OkW(write_bit(FALSE), NoneW),
         Then(write_non_negative_binary_integer(ck, NoneW, Some(ToW(LENGTH_127)), value),
              OkW(<<>>, NoneW)))
    ELSE IF ULt(value, ToW(LENGTH_16K))
    THEN Then(OkW(write_bit(TRUE) \o write_bit(FALSE), NoneW),
         Then(write_non_negative_binary_integer(
                  ck, NoneW, Some(ToW(LENGTH_16K - 1)), value),
              OkW(<<>>, Some(value))))
    ELSE LET multiple == LET m == AsU8(ShiftRight(value, 14))
                         IN  IF m < MAX_FRAGMENTS THEN m ELSE MAX_FRAGMENTS
         IN  OkW(write_bit(TRUE) \o write_bit(TRUE)
                   \o write_bits_with_offset(IntSeg(ToW(multiple), 56, 8), 2),
                 Some(ToW(multiple * LENGTH_16K)))

\* chapter 11.9.4, the last branch of write_length_determinant (11.9.4.1 -> 11.9.3.5),
\* taken when no bound is given
write_length_determinant_unbounded(ck, value) ==
    IF ULe(value, ToW(LENGTH_127))
    THEN \* 11.9.3.6
         Then(OkW(write_bit(FALSE), NoneW),
         Then(write_non_negative_binary_integer(ck, NoneW, Some(ToW(LENGTH_127)), value),
              OkW(<<>>, NoneW)))
    ELSE IF ULt(value, ToW(LENGTH_16K))
    THEN \* 11.9.3.7
         Then(OkW(write_bit(TRUE) \o write_bit(FALSE), NoneW),
         Then(write_non_negative_binary_integer(
                  ck, NoneW, Some(ToW(LENGTH_16K - 1)), value),
              OkW(<<>>, NoneW)))
    ELSE \* 11.9.3.8
         LET multiple == LET m == AsU8(ShiftRight(value, 14))
                         IN  IF m < MAX_FRAGMENTS THEN m ELSE MAX_FRAGMENTS
         IN  OkW(write_bit(TRUE) \o write_bit(TRUE)
                   \o write_bits_with_offset(IntSeg(ToW(multiple), 56, 8), 2),
                 Some(ToW(multiple * LENGTH_16K)))

\* chapter 11.9.4
write_length_determinant(ck, lower_bound, upper_bound, value) ==
    LET lower_bound_unwrapped == const_unwrap_or(lower_bound, ToW(0))
        upper_bound_unwrapped == const_unwrap_or(upper_bound, I64_MAX)
    IN  IF (const_is_some(lower_bound) \/ const_is_some(upper_bound))
           /\ ~ULt(upper_bound_unwrapped, ToW(LENGTH_64K))
        THEN \* 11.9.4.2
             IF lower_bound = upper_bound THEN OkW(<<>>, NoneW)
             ELSE IF ULt(value, lower_bound_unwrapped)
             THEN ErrW("ValueNotInRange",
                       <<value, lower_bound_unwrapped, upper_bound_unwrapped>>, <<>>)
             ELSE Then(write_non_negative_binary_integer(
                           ck, lower_bound, upper_bound,
                           USub(value, lower_bound_unwrapped).w),
                       OkW(<<>>, NoneW))
        ELSE IF const_is_some(upper_bound) /\ ULe(upper_bound_unwrapped, ToW(LENGTH_64K))
        THEN \* 11.9.4.1 -> 11.9.3.4 -> 11.6.1
             Then(write_non_negative_binary_integer(ck, lower_bound, upper_bound, value),
                  OkW(<<>>, NoneW))
        ELSE \* 11.9.4.1 -> 11.9.3.5
             write_length_determinant_unbounded(ck, value)

\* chapter 11.4.  `64 - bit_len` underflows for bit_len > 64: the checked build
\* panics on it, the unchecked one in the buffer, on an offset beyond the slice.
write_2s_compliment_binary_integer(ck, bit_len, value) ==
    IF ULt(ToW(64), bit_len) THEN PanicW(<<>>)
    ELSE OkW(write_bits_with_offset(Bytes(value), 64 - ToInt(bit_len)), NoneW)

\* chapter 11.7
write_semi_constrained_whole_number(ck, lower_bound, value) ==
    IF ILt(value, lower_bound)
    THEN ErrW("ValueNotInRange", <<value, lower_bound, I64_MAX>>, <<>>)
    ELSE LET v == ISub(value, lower_bound)
         IN  IF ck /\ v.over THEN PanicW(<<>>)
             ELSE write_non_negative_binary_integer(ck, NoneW, NoneW, v.w)

\* write_unconstrained_whole_number without `saturating_sub(1)` on the leading
\* zeros: no room is left for the sign bit of a value that is not negative
write_unconstrained_whole_number_no_sign_bit(ck, value) ==
    LET prefix_len ==
            (IF Neg(value)
             THEN ToInt(SaturatingSub(ToW(leading_ones(value)), ToW(1)))
             ELSE leading_zeros(value)) \div 8
        octet_len == 8 - prefix_len
    IN  Then(write_length_determinant(ck, NoneW, NoneW, ToW(octet_len)),
             write_2s_compliment_binary_integer(ck, ToW(octet_len * BYTE_LEN), value))

\* chapter 11.8
write_unconstrained_whole_number(ck, value) ==
    LET prefix_len ==
            (IF Neg(value)
             THEN ToInt(SaturatingSub(ToW(leading_ones(value)), ToW(1)))
             ELSE ToInt(SaturatingSub(ToW(leading_zeros(value)), ToW(1)))) \div 8
        octet_len == 8 - prefix_len
    IN  Then(write_length_determinant(ck, NoneW, NoneW, ToW(octet_len)),
             write_2s_compliment_binary_integer(ck, ToW(octet_len * BYTE_LEN), value))

\* write_enumeration_index with `index > std_variants` for out_of_range
write_enumeration_index_gt(ck, std_variants, extensible, index) ==
    LET out_of_range == ULt(std_variants, index)
        ext == IF extensible THEN write_bit(out_of_range) ELSE <<>>
    IN  Then(OkW(ext, NoneW),
             IF out_of_range
             THEN IF extensible
                  THEN LET d == USub(index, std_variants)
                       IN  write_normally_small_length(ck, d.w)
                  ELSE ErrW("InvalidChoiceIndex", <<index, std_variants>>, <<>>)
             ELSE LET ub == USub(std_variants, ToW(1))
                  IN  IF ck /\ ub.over THEN PanicW(<<>>)
                      ELSE write_non_negative_binary_integer(ck, NoneW, Some(ub.w), index))

\* write_choice_index delegates to write_enumeration_index
write_enumeration_index(ck, std_variants, extensible, index) ==
    LET out_of_range == ~ULt(index, std_variants)
        ext == IF extensible THEN write_bit(out_of_range) ELSE <<>>
    IN  Then(OkW(ext, NoneW),
             IF out_of_range
             THEN IF extensible
                  THEN LET d == USub(index, std_variants)
                       IN  write_normally_small_length(ck, d.w)
                  ELSE ErrW("InvalidChoiceIndex", <<index, std_variants>>, <<>>)
             ELSE LET ub == USub(std_variants, ToW(1))
                  IN  IF ck /\ ub.over THEN PanicW(<<>>)
                      ELSE write_non_negative_binary_integer(ck, NoneW, Some(ub.w), index))

write_choice_index(ck, std_variants, extensible, index) ==
    write_enumeration_index(ck, std_variants, extensible, index)

\* chapter 12
write_boolean(boolean) == OkW(write_bit(boolean), NoneW)

(***************************************************************************)
(* Bit strings and octet strings, writer side.  Lengths are counted in     *)
(* units (bits, octets).  tr records what a call wrote: each length        *)
(* determinant with the number of units it announces and whether it has    *)
(* the 16K-multiple chunk form, and each body with its place in the source.*)
(***************************************************************************)
unwrap_or(ret, d) == IF ret # NoneW THEN ToInt(ret[1]) ELSE d
LdEvent(r, value) ==
    [ev |-> "ld", chunk |-> r.ret # NoneW, n |-> unwrap_or(r.ret, value), from |-> 0]
Ld(r, value) == IF r.k = "ok" THEN [r EXCEPT !.tr = <<LdEvent(r, value)>>] ELSE r
Body(out, from, n) ==
    [OkW(out, NoneW) EXCEPT !.tr = <<[ev |-> "body", chunk |-> FALSE, n |-> n, from |-> from]>>]

\* the loop of write_bitstring
RECURSIVE write_bitstring_fragments(_, _, _, _, _)
write_bitstring_fragments(ck, pat, offset, length, written_bits) ==
    LET rest == length - written_bits
        fragment_size0 == IF rest < MAX_FRAGMENTS_SIZE THEN rest ELSE MAX_FRAGMENTS_SIZE
        fragment_size == fragment_size0 - (fragment_size0 % MIN_FRAGMENT_SIZE)
    IN  Then(Ld(write_length_determinant(ck, NoneW, NoneW, ToW(fragment_size)),
                fragment_size),
        Then(Body(write_bits_with_offset_len(Src(pat), offset + written_bits, fragment_size),
                  offset + written_bits, fragment_size),
             IF fragment_size < MIN_FRAGMENT_SIZE THEN OkW(<<>>, NoneW)
             ELSE write_bitstring_fragments(ck, pat, offset, length,
                                            written_bits + fragment_size)))

\* write_bitstring with `length <= lower_bound` for out_of_range
write_bitstring_out_of_range_le(ck, lower_bound_size, upper_bound_size, extensible, pat, offset, len) ==
    LET lower_bound == const_unwrap_or(lower_bound_size, ToW(0))
        upper_bound == const_unwrap_or(upper_bound_size, I64_MAX)
        length == len
        fragmented == length > MAX_FRAGMENTS_SIZE
        out_of_range == ULe(ToW(length), lower_bound) \/ ULt(upper_bound, ToW(length))
        first == IF MAX_FRAGMENTS_SIZE < length THEN MAX_FRAGMENTS_SIZE ELSE length
    IN  Then(OkW(IF extensible THEN write_bit(out_of_range) ELSE <<>>, NoneW),
        Then(IF out_of_range
             THEN IF extensible
                  THEN \* 16.6
                       Ld(write_length_determinant(ck, NoneW, NoneW, ToW(length)), length)
                  ELSE ErrW("SizeNotInRange",
                            <<ToW(length), lower_bound, upper_bound>>, <<>>)
             ELSE IF const_is_some(lower_bound_size) /\ lower_bound_size = upper_bound_size
                     /\ ULt(upper_bound, ToW(LENGTH_64K))
             THEN \* 16.10
                  OkW(<<>>, NoneW)
             ELSE \* 16.11
                  Ld(write_length_determinant(
                         ck, lower_bound_size, upper_bound_size, ToW(length)), length),
        Then(Body(write_bits_with_offset_len(Src(pat), offset, first), offset, first),
             IF fragmented
             THEN write_bitstring_fragments(ck, pat, offset, length, MAX_FRAGMENTS_SIZE)
             ELSE OkW(<<>>, NoneW))))

\* chapter 16: the len bits from bit offset on of source pat
write_bitstring(ck, lower_bound_size, upper_bound_size, extensible, pat, offset, len) ==
    LET lower_bound == const_unwrap_or(lower_bound_size, ToW(0))
        upper_bound == const_unwrap_or(upper_bound_size, I64_MAX)
        length == len
        fragmented == length > MAX_FRAGMENTS_SIZE
        out_of_range == ULt(ToW(length), lower_bound) \/ ULt(upper_bound, ToW(length))
        first == IF MAX_FRAGMENTS_SIZE < length THEN MAX_FRAGMENTS_SIZE ELSE length
    IN  Then(OkW(IF extensible THEN write_bit(out_of_range) ELSE <<>>, NoneW),
        Then(IF out_of_range
             THEN IF extensible
                  THEN \* 16.6
                       Ld(write_length_determinant(ck, NoneW, NoneW, ToW(length)), length)
                  ELSE ErrW("SizeNotInRange",
                            <<ToW(length), lower_bound, upper_bound>>, <<>>)
             ELSE IF const_is_some(lower_bound_size) /\ lower_bound_size = upper_bound_size
                     /\ ULt(upper_bound, ToW(LENGTH_64K))
             THEN \* 16.10
                  OkW(<<>>, NoneW)
             ELSE \* 16.11
                  Ld(write_length_determinant(
                         ck, lower_bound_size, upper_bound_size, ToW(length)), length),
        Then(Body(write_bits_with_offset_len(Src(pat), offset, first), offset, first),
             IF fragmented
             THEN write_bitstring_fragments(ck, pat, offset, length, MAX_FRAGMENTS_SIZE)
             ELSE OkW(<<>>, NoneW))))

\* the loop of write_octetstring
RECURSIVE write_octetstring_fragments(_, _, _, _)
write_octetstring_fragments(ck, pat, length, written_bytes) ==
    LET remaining == length - written_bytes
        fragment(ld, fragment_size) ==
            Then(ld,
            Then(Body(write_bits(SrcSeg(pat, 8 * written_bytes, 8 * fragment_size)),
                      written_bytes, fragment_size),
                 IF fragment_size < MIN_FRAGMENT_SIZE THEN OkW(<<>>, NoneW)
                 ELSE write_octetstring_fragments(ck, pat, length,
                                                  written_bytes + fragment_size)))
        determined(ld) == fragment(ld, unwrap_or(ld.ret, remaining))
    IN  determined(Ld(write_length_determinant(ck, NoneW, NoneW, ToW(remaining)),
                      remaining))

\* write_octetstring with `length <= lower_bound` for out_of_range
write_octetstring_out_of_range_le(ck, lower_bound_size, upper_bound_size, extensible, pat, length) ==
    LET lower_bound == const_unwrap_or(lower_bound_size, ToW(0))
        upper_bound == const_unwrap_or(upper_bound_size, I64_MAX)
        out_of_range == ULe(ToW(length), lower_bound) \/ ULt(upper_bound, ToW(length))
        fragments(ld, fragment_size, first) ==
            Then(ld,
            Then(Body(write_bits(SrcSeg(pat, 0, 8 * first)), 0, first),
                 IF fragment_size # NoneW
                 THEN write_octetstring_fragments(ck, pat, length, first)
                 ELSE OkW(<<>>, NoneW)))
        determined(ld) == fragments(ld, ld.ret, unwrap_or(ld.ret, length))
    IN  Then(OkW(IF extensible THEN write_bit(out_of_range) ELSE <<>>, NoneW),
             IF out_of_range /\ ~extensible
             THEN ErrW("SizeNotInRange", <<ToW(length), lower_bound, upper_bound>>, <<>>)
             ELSE IF ~out_of_range /\ upper_bound = ToW(0)
             THEN \* 17.5
                  OkW(<<>>, NoneW)
             ELSE determined(
                      IF out_of_range
                      THEN \* 17.3
                           Ld(write_length_determinant(ck, NoneW, NoneW, ToW(length)),
                              length)
                      ELSE IF const_is_some(lower_bound_size)
                              /\ lower_bound_size = upper_bound_size
                              /\ ULt(upper_bound, ToW(LENGTH_64K))
                      THEN \* 17.7
                           OkW(<<>>, NoneW)
                      ELSE \* 17.8
                           Ld(write_length_determinant(
                                  ck, lower_bound_size, upper_bound_size, ToW(length)),
                              length)))

\* chapter 17: the length octets of source pat
write_octetstring(ck, lower_bound_size, upper_bound_size, extensible, pat, length) ==
    LET lower_bound == const_unwrap_or(lower_bound_size, ToW(0))
        upper_bound == const_unwrap_or(upper_bound_size, I64_MAX)
        out_of_range == ULt(ToW(length), lower_bound) \/ ULt(upper_bound, ToW(length))
        fragments(ld, fragment_size, first) ==
            Then(ld,
            Then(Body(write_bits(SrcSeg(pat, 0, 8 * first)), 0, first),
                 IF fragment_size # NoneW
                 THEN write_octetstring_fragments(ck, pat, length, first)
                 ELSE OkW(<<>>, NoneW)))
        determined(ld) == fragments(ld, ld.ret, unwrap_or(ld.ret, length))
    IN  Then(OkW(IF extensible THEN write_bit(out_of_range) ELSE <<>>, NoneW),
             IF out_of_range /\ ~extensible
             THEN ErrW("SizeNotInRange", <<ToW(length), lower_bound, upper_bound>>, <<>>)
             ELSE IF ~out_of_range /\ upper_bound = ToW(0)
             THEN \* 17.5
                  OkW(<<>>, NoneW)
             ELSE determined(
                      IF out_of_range
                      THEN \* 17.3
                           Ld(write_length_determinant(ck, NoneW, NoneW, ToW(length)),
                              length)
                      ELSE IF const_is_some(lower_bound_size)
                              /\ lower_bound_size = upper_bound_size
                              /\ ULt(upper_bound, ToW(LENGTH_64K))
                      THEN \* 17.7
                           OkW(<<>>, NoneW)
                      ELSE \* 17.8
                           Ld(write_length_determinant(
                                  ck, lower_bound_size, upper_bound_size, ToW(length)),
                              length)))

(***************************************************************************)
(* BitRead over the bits S with read position pos.  A primitive read that  *)
(* lacks bits fails with EndOfStream and consumes nothing.                 *)
(* Outcomes of a read call: the position it leaves, and Ok(val) (a word),  *)
(* Ok of a string (segs, bit_len, buf_len), Err(e(ea)) or a panic.         *)
(***************************************************************************)
OkR(pos, val) ==
    [k |-> "ok", e |-> "", ea |-> <<>>, pos |-> pos, val |-> val,
     segs |-> <<>>, bit_len |-> 0, buf_len |-> 0]
OkS(pos, segs, bit_len, buf_len) ==
    [k |-> "ok", e |-> "", ea |-> <<>>, pos |-> pos, val |-> ToW(0),
     segs |-> segs, bit_len |-> bit_len, buf_len |-> buf_len]
ErrR(e, ea, pos) ==
    [k |-> "err", e |-> e, ea |-> ea, pos |-> pos, val |-> ToW(0),
     segs |-> <<>>, bit_len |-> 0, buf_len |-> 0]
PanicR(pos) ==
    [k |-> "panic", e |-> "overflow", ea |-> <<>>, pos |-> pos, val |-> ToW(0),
     segs |-> <<>>, bit_len |-> 0, buf_len |-> 0]

read_bit(S, pos) ==
    IF pos < BitLen(S) THEN OkR(pos + 1, ToW(BitAt(S, pos)))
    ELSE ErrR("EndOfStream", <<>>, pos)

\* into a zeroed buffer of nbytes <= 8 octets from bit offset off on; val is the
\* buffer as a big-endian number
read_bits_with_offset(S, pos, nbytes, off) ==
    LET n == 8 * nbytes - off
    IN  IF pos + n <= BitLen(S) THEN OkR(pos + n, WordAt(S, pos, n))
        ELSE ErrR("EndOfStream", <<>>, pos)

\* n payload bits, n a word (read_bits, read_bits_with_len, read_bits_with_offset_len
\* into a payload buffer)
read_payload(S, pos, n) ==
    IF ULe(n, ToW(BitLen(S) - pos))
    THEN OkS(pos + ToInt(n), Slice(S, pos, ToInt(n)), ToInt(n), 0)
    ELSE ErrR("EndOfStream", <<>>, pos)

(***************************************************************************)
(* PackedRead                                                              *)
(***************************************************************************)
\* chapter 12
read_boolean(S, pos) == read_bit(S, pos)

RECURSIVE read_length_determinant(_, _, _, _, _)

\* read_non_negative_binary_integer refusing a length of 8 octets
read_non_negative_binary_integer_lt_8(ck, S, pos, lower_bound, upper_bound) ==
    LET lower == const_unwrap_or(lower_bound, ToW(0))
        upper == const_unwrap_or(upper_bound, I64_MAX)
        range == SaturatingSub(upper, lower)
        offset_bits == leading_zeros(range)
        of_length(ld) ==
            IF ld.k # "ok" THEN ld
            ELSE IF ULt(ld.val, ToW(8))
            THEN read_bits_with_offset(S, ld.pos, 8, 8 * (8 - ToInt(ld.val)))
            ELSE ErrR("LengthDeterminantExceedsLimit", <<ld.val, ToW(8)>>, ld.pos)
        plus_lower(bytes, sum) ==
            IF bytes.k # "ok" THEN bytes
            ELSE IF ck /\ sum.over THEN PanicR(bytes.pos)
            ELSE OkR(bytes.pos, sum.w)
        of_bytes(bytes) == plus_lower(bytes, UAdd(lower, bytes.val))
    IN  IF lower_bound = NoneW /\ upper_bound = NoneW
        THEN of_length(read_length_determinant(ck, S, pos, NoneW, NoneW))
        ELSE of_bytes(read_bits_with_offset(S, pos, 8, offset_bits))

\* chapter 11.3
read_non_negative_binary_integer(ck, S, pos, lower_bound, upper_bound) ==
    LET lower == const_unwrap_or(lower_bound, ToW(0))
        upper == const_unwrap_or(upper_bound, I64_MAX)
        range == SaturatingSub(upper, lower)
        offset_bits == leading_zeros(range)
        of_length(ld) ==
            IF ld.k # "ok" THEN ld
            ELSE IF ULe(ld.val, ToW(8))
            THEN read_bits_with_offset(S, ld.pos, 8, 8 * (8 - ToInt(ld.val)))
            ELSE ErrR("LengthDeterminantExceedsLimit", <<ld.val, ToW(8)>>, ld.pos)
        plus_lower(bytes, sum) ==
            IF bytes.k # "ok" THEN bytes
            ELSE IF ck /\ sum.over THEN PanicR(bytes.pos)
            ELSE OkR(bytes.pos, sum.w)
        of_bytes(bytes) == plus_lower(bytes, UAdd(lower, bytes.val))
    IN  IF lower_bound = NoneW /\ upper_bound = NoneW
        THEN of_length(read_length_determinant(ck, S, pos, NoneW, NoneW))
        ELSE of_bytes(read_bits_with_offset(S, pos, 8, offset_bits))

\* i64 `a + b`
IAdd(a, b) ==
    LET s == AddW(a, b).w
    IN  [w |-> s, over |-> Neg(a) = Neg(b) /\ Neg(s) # Neg(a)]

\* the outcome n of a read with `+ value` applied, value and sum of type u64
PlusU(ck, n, value) ==
    LET sum == UAdd(value, n.val)
    IN  IF n.k # "ok" THEN n
        ELSE IF ck /\ sum.over THEN PanicR(n.pos)
        ELSE OkR(n.pos, sum.w)

\* the same for i64
PlusI(ck, n, value) ==
    LET sum == IAdd(value, n.val)
    IN  IF n.k # "ok" THEN n
        ELSE IF ck /\ sum.over THEN PanicR(n.pos)
        ELSE OkR(n.pos, sum.w)

\* chapter 11.5
read_constrained_whole_number(ck, S, pos, lower_bound, upper_bound) ==
    LET range == ISub(upper_bound, lower_bound)
    IN  IF ck /\ range.over THEN PanicR(pos)
        ELSE IF ILt(ToW(0), range.w)
        THEN PlusI(ck, read_non_negative_binary_integer(ck, S, pos, NoneW, Some(range.w)),
                   lower_bound)
        ELSE OkR(pos, lower_bound)

\* chapter 11.6
read_normally_small_non_negative_whole_number(ck, S, pos) ==
    LET of_bit(greater_or_equal_to_64) ==
            IF greater_or_equal_to_64.k # "ok" THEN greater_or_equal_to_64
            ELSE read_non_negative_binary_integer(
                     ck, S, greater_or_equal_to_64.pos, NoneW,
                     IF greater_or_equal_to_64.val = ToW(1) THEN NoneW
                     ELSE Some(ToW(SMALL_NON_NEGATIVE_NUMBER - 1)))
    IN  of_bit(read_bit(S, pos))

\* chapter 11.9.3
read_normally_small_length(ck, S, pos) ==
    read_normally_small_non_negative_whole_number(ck, S, pos)

\* read_length_determinant taking the chunk multiplier as it is read, without
\* `min(MAX_FRAGMENTS)`
read_length_determinant_unclamped(ck, S, pos, lower_bound, upper_bound) ==
    LET lower_bound_unwrapped == const_unwrap_or(lower_bound, ToW(0))
        upper_bound_unwrapped == const_unwrap_or(upper_bound, I64_MAX)
        \* 11.9.3.8
        of_multiple(multiple, m) ==
            IF multiple.k # "ok" THEN multiple
            ELSE OkR(multiple.pos,
                     ToW(LENGTH_16K * m))
        chunk(multiple) == of_multiple(multiple, ToInt(multiple.val))
        second(b1) ==
            IF b1.k # "ok" THEN b1
            ELSE IF b1.val = ToW(0)
            THEN \* 11.9.3.7
                 read_non_negative_binary_integer(
                     ck, S, b1.pos, NoneW, Some(ToW(LENGTH_16K - 1)))
            ELSE chunk(read_bits_with_offset(S, b1.pos, 1, 2))
        first(b0) ==
            IF b0.k # "ok" THEN b0
            ELSE IF b0.val = ToW(0)
            THEN \* 11.9.3.6
                 read_non_negative_binary_integer(
                     ck, S, b0.pos, NoneW, Some(ToW(LENGTH_127)))
            ELSE second(read_bit(S, b0.pos))
    IN  IF (const_is_some(lower_bound) \/ const_is_some(upper_bound))
           /\ ~ULt(upper_bound_unwrapped, ToW(LENGTH_64K))
        THEN \* 11.9.4.2
             IF lower_bound = upper_bound THEN OkR(pos, lower_bound_unwrapped)
             ELSE PlusU(ck, read_non_negative_binary_integer(
                                ck, S, pos, lower_bound, upper_bound),
                        lower_bound_unwrapped)
        ELSE IF const_is_some(upper_bound) /\ ULe(upper_bound_unwrapped, ToW(LENGTH_64K))
        THEN \* 11.9.4.1 -> 11.9.3.4 -> 11.6.1
             read_non_negative_binary_integer(ck, S, pos, lower_bound, upper_bound)
        ELSE \* 11.9.4.1 -> 11.9.3.5
             first(read_bit(S, pos))

\* chapter 11.9.4
read_length_determinant(ck, S, pos, lower_bound, upper_bound) ==
    LET lower_bound_unwrapped == const_unwrap_or(lower_bound, ToW(0))
        upper_bound_unwrapped == const_unwrap_or(upper_bound, I64_MAX)
        \* 11.9.3.8
        of_multiple(multiple, m) ==
            IF multiple.k # "ok" THEN multiple
            ELSE OkR(multiple.pos,
                     ToW(LENGTH_16K * (IF m < MAX_FRAGMENTS THEN m ELSE MAX_FRAGMENTS)))
        chunk(multiple) == of_multiple(multiple, ToInt(multiple.val))
        second(b1) ==
            IF b1.k # "ok" THEN b1
            ELSE IF b1.val = ToW(0)
            THEN \* 11.9.3.7
                 read_non_negative_binary_integer(
                     ck, S, b1.pos, NoneW, Some(ToW(LENGTH_16K - 1)))
            ELSE chunk(read_bits_with_offset(S, b1.pos, 1, 2))
        first(b0) ==
            IF b0.k # "ok" THEN b0
            ELSE IF b0.val = ToW(0)
            THEN \* 11.9.3.6
                 read_non_negative_binary_integer(
                     ck, S, b0.pos, NoneW, Some(ToW(LENGTH_127)))
            ELSE second(read_bit(S, b0.pos))
    IN  IF (const_is_some(lower_bound) \/ const_is_some(upper_bound))
           /\ ~ULt(upper_bound_unwrapped, ToW(LENGTH_64K))
        THEN \* 11.9.4.2
             IF lower_bound = upper_bound THEN OkR(pos, lower_bound_unwrapped)
             ELSE PlusU(ck, read_non_negative_binary_integer(
                                ck, S, pos, lower_bound, upper_bound),
                        lower_bound_unwrapped)
        ELSE IF const_is_some(upper_bound) /\ ULe(upper_bound_unwrapped, ToW(LENGTH_64K))
        THEN \* 11.9.4.1 -> 11.9.3.4 -> 11.6.1
             read_non_negative_binary_integer(ck, S, pos, lower_bound, upper_bound)
        ELSE \* 11.9.4.1 -> 11.9.3.5
             first(read_bit(S, pos))

\* read_2s_compliment_binary_integer expanding the sign over whole bytes only
read_2s_compliment_binary_integer_whole_bytes(S, pos, bit_len) ==
    LET extended(bytes, bits_offset) ==
            IF bytes.k # "ok" THEN bytes
            ELSE IF WBit(bytes.val, bits_offset) # 0
            THEN LET B == [j \in 0..63 |->
                           IF j < 8 * (bits_offset \div 8) THEN 1 ELSE WBit(bytes.val, j)]
                 IN  OkR(bytes.pos, WordOfBits(B))
            ELSE bytes
        of_offset(bits_offset) ==
            extended(read_bits_with_offset(S, pos, 8, bits_offset), bits_offset)
    IN  IF bit_len = ToW(0) \/ ULt(ToW(8 * BYTE_LEN), bit_len)
        THEN ErrR("BitLenNotInRange", <<bit_len, ToW(1), ToW(8 * BYTE_LEN)>>, pos)
        ELSE of_offset(8 * BYTE_LEN - ToInt(bit_len))

\* chapter 11.4.  A set most significant bit of the bit_len bits read is expanded
\* over the bits_offset bits before it.
read_2s_compliment_binary_integer(S, pos, bit_len) ==
    LET extended(bytes, bits_offset) ==
            IF bytes.k # "ok" THEN bytes
            ELSE IF WBit(bytes.val, bits_offset) # 0
            THEN LET B == [j \in 0..63 |-> IF j < bits_offset THEN 1 ELSE WBit(bytes.val, j)]
                 IN  OkR(bytes.pos, WordOfBits(B))
            ELSE bytes
        of_offset(bits_offset) ==
            extended(read_bits_with_offset(S, pos, 8, bits_offset), bits_offset)
    IN  IF bit_len = ToW(0) \/ ULt(ToW(8 * BYTE_LEN), bit_len)
        THEN ErrR("BitLenNotInRange", <<bit_len, ToW(1), ToW(8 * BYTE_LEN)>>, pos)
        ELSE of_offset(8 * BYTE_LEN - ToInt(bit_len))

\* chapter 11.7
read_semi_constrained_whole_number(ck, S, pos, lower_bound) ==
    PlusI(ck, read_non_negative_binary_integer(ck, S, pos, NoneW, NoneW), lower_bound)

\* read_unconstrained_whole_number going back to where it started when the
\* number cannot be read
read_unconstrained_whole_number_restoring(ck, S, pos) ==
    LET restored(r) == IF r.k = "err" THEN [r EXCEPT !.pos = pos] ELSE r
        of_length(octet_len) ==
            IF octet_len.k # "ok" THEN octet_len
            ELSE restored(read_2s_compliment_binary_integer(
                              S, octet_len.pos, ToW(ToInt(octet_len.val) * BYTE_LEN)))
    IN  of_length(read_length_determinant(ck, S, pos, NoneW, NoneW))

\* chapter 11.8: octet_len is 65536 at most, `octet_len * BYTE_LEN` does not overflow
read_unconstrained_whole_number(ck, S, pos) ==
    LET of_length(octet_len) ==
            IF octet_len.k # "ok" THEN octet_len
            ELSE read_2s_compliment_binary_integer(
                     S, octet_len.pos, ToW(ToInt(octet_len.val) * BYTE_LEN))
    IN  of_length(read_length_determinant(ck, S, pos, NoneW, NoneW))

\* read_choice_index delegates to read_enumeration_index
read_enumeration_index(ck, S, pos, std_variants, extensible) ==
    LET ub == USub(std_variants, ToW(1))
        of_ext(ext) ==
            IF ext.k # "ok" THEN ext
            ELSE IF ext.val = ToW(1)
            THEN PlusU(ck, read_normally_small_length(ck, S, ext.pos), std_variants)
            ELSE IF ck /\ ub.over THEN PanicR(ext.pos)
            ELSE read_non_negative_binary_integer(ck, S, ext.pos, NoneW, Some(ub.w))
    IN  of_ext(IF extensible THEN read_bit(S, pos) ELSE OkR(pos, ToW(0)))

read_choice_index(ck, S, pos, std_variants, extensible) ==
    read_enumeration_index(ck, S, pos, std_variants, extensible)

(***************************************************************************)
(* Bit strings and octet strings, reader side.  The buffers are allocated  *)
(* before the payload is read; a length beyond the bits that remain ends   *)
(* in EndOfStream.                                                         *)
(***************************************************************************)
\* units payload units of unit bits each, units a word
read_units(S, pos, units, unit) ==
    IF ULe(units, ToW((BitLen(S) - pos) \div unit))
    THEN read_payload(S, pos, ToW(unit * ToInt(units)))
    ELSE ErrR("EndOfStream", <<>>, pos)

\* the loop of read_bitstring.  `byte_len - ((bit_len + ext_bit_len) + 7) / 8`
\* underflows when the buffer has to grow: the checked build panics on the
\* subtraction, the unchecked one on the Vec's capacity overflow in `extend`.
RECURSIVE read_bitstring_fragments(_, _, _, _, _, _, _)
read_bitstring_fragments(ck, S, pos, segs, bit_len, byte_len, buf_len) ==
    LET extended(body, ext_bit_len, ext_byte_len) ==
            IF body.k # "ok" THEN body
            ELSE IF ext_bit_len < LENGTH_16K
            THEN OkS(body.pos, segs \o body.segs, bit_len + ext_bit_len,
                     buf_len + ext_byte_len)
            ELSE read_bitstring_fragments(ck, S, body.pos, segs \o body.segs,
                                          bit_len + ext_bit_len, byte_len + ext_bit_len,
                                          buf_len + ext_byte_len)
        extend(ld, ext_bit_len, needed) ==
            IF byte_len < needed THEN PanicR(ld.pos)
            ELSE extended(read_payload(S, ld.pos, ld.val), ext_bit_len,
                          byte_len - needed)
        fragment(ld, ext_bit_len) ==
            extend(ld, ext_bit_len, ((bit_len + ext_bit_len) + 7) \div 8)
        determined(ld) == IF ld.k # "ok" THEN ld ELSE fragment(ld, ToInt(ld.val))
    IN  determined(read_length_determinant(ck, S, pos, NoneW, NoneW))

\* read_bitstring with `upper_bound < LENGTH_16K` for the fixed size (16.10)
read_bitstring_fixed_lt_16K(ck, S, pos, lower_bound_size, upper_bound_size, extensible) ==
    LET upper_bound == const_unwrap_or(upper_bound_size, I64_MAX)
        fixed == const_is_some(lower_bound_size) /\ lower_bound_size = upper_bound_size
                 /\ ULt(upper_bound, ToW(LENGTH_16K))
        read(fragmentation_possible, body, byte_len) ==
            IF fragmentation_possible /\ body.bit_len >= LENGTH_16K
            THEN read_bitstring_fragments(ck, S, body.pos, body.segs, body.bit_len,
                                          byte_len, byte_len)
            ELSE OkS(body.pos, body.segs, body.bit_len, byte_len)
        payload(fragmentation_possible, body) ==
            IF body.k # "ok" THEN body
            ELSE read(fragmentation_possible, body, (body.bit_len + 7) \div 8)
        determined(fragmentation_possible, ld) ==
            IF ld.k # "ok" THEN ld
            ELSE IF ck /\ UAdd(ld.val, ToW(7)).over THEN PanicR(ld.pos)
            ELSE payload(fragmentation_possible, read_payload(S, ld.pos, ld.val))
        of_ext(ext) ==
            IF ext.k # "ok" THEN ext
            ELSE determined(
                     ext.val = ToW(1) \/ ~fixed,
                     IF ext.val = ToW(1)
                     THEN \* 16.6
                          read_length_determinant(ck, S, ext.pos, NoneW, NoneW)
                     ELSE IF fixed
                     THEN \* 16.10
                          OkR(ext.pos, upper_bound)
                     ELSE \* 16.11
                          read_length_determinant(ck, S, ext.pos, lower_bound_size,
                                                  upper_bound_size))
    IN  of_ext(IF extensible THEN read_bit(S, pos) ELSE OkR(pos, ToW(0)))

\* chapter 16
read_bitstring(ck, S, pos, lower_bound_size, upper_bound_size, extensible) ==
    LET upper_bound == const_unwrap_or(upper_bound_size, I64_MAX)
        fixed == const_is_some(lower_bound_size) /\ lower_bound_size = upper_bound_size
                 /\ ULt(upper_bound, ToW(LENGTH_64K))
        read(fragmentation_possible, body, byte_len) ==
            IF fragmentation_possible /\ body.bit_len >= LENGTH_16K
            THEN read_bitstring_fragments(ck, S, body.pos, body.segs, body.bit_len,
                                          byte_len, byte_len)
            ELSE OkS(body.pos, body.segs, body.bit_len, byte_len)
        payload(fragmentation_possible, body) ==
            IF body.k # "ok" THEN body
            ELSE read(fragmentation_possible, body, (body.bit_len + 7) \div 8)
        determined(fragmentation_possible, ld) ==
            IF ld.k # "ok" THEN ld
            ELSE IF ck /\ UAdd(ld.val, ToW(7)).over THEN PanicR(ld.pos)
            ELSE payload(fragmentation_possible, read_payload(S, ld.pos, ld.val))
        of_ext(ext) ==
            IF ext.k # "ok" THEN ext
            ELSE determined(
                     ext.val = ToW(1) \/ ~fixed,
                     IF ext.val = ToW(1)
                     THEN \* 16.6
                          read_length_determinant(ck, S, ext.pos, NoneW, NoneW)
                     ELSE IF fixed
                     THEN \* 16.10
                          OkR(ext.pos, upper_bound)
                     ELSE \* 16.11
                          read_length_determinant(ck, S, ext.pos, lower_bound_size,
                                                  upper_bound_size))
    IN  of_ext(IF extensible THEN read_bit(S, pos) ELSE OkR(pos, ToW(0)))

\* the loop of read_octetstring
RECURSIVE read_octetstring_fragments(_, _, _, _, _)
read_octetstring_fragments(ck, S, pos, segs, byte_len) ==
    LET extended(body, ext_byte_len) ==
            IF body.k # "ok" THEN body
            ELSE IF ext_byte_len < LENGTH_16K
            THEN OkS(body.pos, segs \o body.segs, 8 * (byte_len + ext_byte_len),
                     byte_len + ext_byte_len)
            ELSE read_octetstring_fragments(ck, S, body.pos, segs \o body.segs,
                                            byte_len + ext_byte_len)
        determined(ld) ==
            IF ld.k # "ok" THEN ld
            ELSE extended(read_units(S, ld.pos, ld.val, 8), ToInt(ld.val))
    IN  determined(read_length_determinant(ck, S, pos, NoneW, NoneW))

\* chapter 17
read_octetstring(ck, S, pos, lower_bound_size, upper_bound_size, extensible) ==
    LET upper_bound == const_unwrap_or(upper_bound_size, I64_MAX)
        fixed == const_is_some(lower_bound_size) /\ lower_bound_size = upper_bound_size
                 /\ ULt(upper_bound, ToW(LENGTH_64K))
        read(fragmentation_possible, body, byte_len) ==
            IF body.k # "ok" THEN body
            ELSE IF fragmentation_possible /\ byte_len >= LENGTH_16K
            THEN read_octetstring_fragments(ck, S, body.pos, body.segs, byte_len)
            ELSE OkS(body.pos, body.segs, body.bit_len, byte_len)
        payload(fragmentation_possible, body) ==
            read(fragmentation_possible, body, body.bit_len \div 8)
        determined(fragmentation_possible, ld) ==
            IF ld.k # "ok" THEN ld
            ELSE payload(fragmentation_possible, read_units(S, ld.pos, ld.val, 8))
        of_ext(ext) ==
            IF ext.k # "ok" THEN ext
            ELSE IF ext.val = ToW(0) /\ upper_bound = ToW(0)
            THEN \* 17.5
                 OkS(ext.pos, <<>>, 0, 0)
            ELSE determined(
                     ext.val = ToW(1) \/ ~fixed,
                     IF ext.val = ToW(1)
                     THEN \* 17.3
                          read_length_determinant(ck, S, ext.pos, NoneW, NoneW)
                     ELSE IF fixed
                     THEN \* 17.7
                          OkR(ext.pos, upper_bound)
                     ELSE \* 17.8
                          read_length_determinant(ck, S, ext.pos, lower_bound_size,
                                                  upper_bound_size))
    IN  of_ext(IF extensible THEN read_bit(S, pos) ELSE OkR(pos, ToW(0)))

(***************************************************************************)
(* ScopedBitRead over a reader R = [pos, len] on a buffer of cap bits.      *)
(* A closure is a sequence of steps on the reader it is given: read_bit,   *)
(* set_pos(n), set_len(n).                                                 *)
(***************************************************************************)
Min(a, b) == IF a < b THEN a ELSE b

\* clamped to the visible length
set_pos(R, position) == [R EXCEPT !.pos = Min(position, R.len)]
\* clamped to the buffer; the read position stays within the visible length
set_len(R, cap, len) == [pos |-> Min(R.pos, Min(len, cap)), len |-> Min(len, cap)]

Step(R, cap, step) ==
    CASE step.s = "read_bit" -> IF R.pos < R.len THEN [R EXCEPT !.pos = R.pos + 1] ELSE R
      [] step.s = "set_pos" -> set_pos(R, step.n)
      [] step.s = "set_len" -> set_len(R, cap, step.n)

\* f(self)
RECURSIVE CallClosure(_, _, _)
CallClosure(R, cap, f) ==
    IF f = <<>> THEN R ELSE CallClosure(Step(R, cap, Head(f)), cap, Tail(f))

\* with_read_position_at writing the original position back without set_pos
with_read_position_at_unclamped(R, cap, pos, f) ==
    LET original_pos == R.pos
        restore(after) == [after EXCEPT !.pos = original_pos]
    IN  restore(CallClosure(set_pos(R, pos), cap, f))

with_read_position_at(R, cap, pos, f) ==
    LET original_pos == R.pos
        restore(after) == set_pos(after, original_pos)
    IN  restore(CallClosure(set_pos(R, pos), cap, f))

(***************************************************************************)
(* The codec in use: write calls on a fresh writer, then the matching read *)
(* calls (same order, same constraints) on a reader over the bits written. *)
(***************************************************************************)
\* a call: the operation and its arguments (those it does not take are zero)
Call(op, lb, ub, ext, a, b, v, pat, off, len) ==
    [op |-> op, lb |-> lb, ub |-> ub, ext |-> ext, a |-> a, b |-> b, v |-> v,
     pat |-> pat, off |-> off, len |-> len]
boolean(bit) ==
    Call("boolean", NoneW, NoneW, bit, ToW(0), ToW(0), ToW(0), 0, 0, 0)
constrained_whole_number(lb, ub, v) ==
    Call("constrained_whole_number", NoneW, NoneW, FALSE, lb, ub, v, 0, 0, 0)
length_determinant(lb, ub, v) ==
    Call("length_determinant", lb, ub, FALSE, ToW(0), ToW(0), v, 0, 0, 0)
enumeration_index(std_variants, extensible, index) ==
    Call("enumeration_index", NoneW, NoneW, extensible, std_variants, ToW(0), index, 0, 0, 0)
choice_index(std_variants, extensible, index) ==
    Call("choice_index", NoneW, NoneW, extensible, std_variants, ToW(0), index, 0, 0, 0)
bitstring(lb, ub, extensible, pat, off, len) ==
    Call("bitstring", lb, ub, extensible, ToW(0), ToW(0), ToW(0), pat, off, len)
octetstring(lb, ub, extensible, pat, len) ==
    Call("octetstring", lb, ub, extensible, ToW(0), ToW(0), ToW(0), pat, 0, len)

semi_constrained_whole_number(lb, v) ==
    Call("semi_constrained_whole_number", NoneW, NoneW, FALSE, lb, ToW(0), v, 0, 0, 0)
unconstrained_whole_number(v) ==
    Call("unconstrained_whole_number", NoneW, NoneW, FALSE, ToW(0), ToW(0), v, 0, 0, 0)
binary_integer_2s_compliment(bit_len, v) ==
    Call("2s_compliment_binary_integer", NoneW, NoneW, FALSE, bit_len, ToW(0), v, 0, 0, 0)
non_negative_binary_integer(lb, ub) ==
    Call("non_negative_binary_integer", lb, ub, FALSE, ToW(0), ToW(0), ToW(0), 0, 0, 0)

\* PackedWrite::write_<op>
ApplyWrite(ck, c) ==
    CASE c.op = "boolean" -> write_boolean(c.ext)
      [] c.op = "constrained_whole_number" ->
            write_constrained_whole_number(ck, c.a, c.b, c.v)
      [] c.op = "length_determinant" -> write_length_determinant(ck, c.lb, c.ub, c.v)
      [] c.op = "enumeration_index" -> write_enumeration_index(ck, c.a, c.ext, c.v)
      [] c.op = "choice_index" -> write_choice_index(ck, c.a, c.ext, c.v)
      [] c.op = "bitstring" ->
            write_bitstring(ck, c.lb, c.ub, c.ext, c.pat, c.off, c.len)
      [] c.op = "octetstring" -> write_octetstring(ck, c.lb, c.ub, c.ext, c.pat, c.len)
      [] c.op = "semi_constrained_whole_number" ->
            write_semi_constrained_whole_number(ck, c.a, c.v)
      [] c.op = "unconstrained_whole_number" -> write_unconstrained_whole_number(ck, c.v)
      [] c.op = "2s_compliment_binary_integer" ->
            write_2s_compliment_binary_integer(ck, c.a, c.v)

\* PackedRead::read_<op>, with the constraints of the write call c
ApplyRead(ck, S, pos, c) ==
    CASE c.op = "boolean" -> read_boolean(S, pos)
      [] c.op = "constrained_whole_number" ->
            read_constrained_whole_number(ck, S, pos, c.a, c.b)
      [] c.op = "length_determinant" -> read_length_determinant(ck, S, pos, c.lb, c.ub)
      [] c.op = "enumeration_index" -> read_enumeration_index(ck, S, pos, c.a, c.ext)
      [] c.op = "choice_index" -> read_choice_index(ck, S, pos, c.a, c.ext)
      [] c.op = "bitstring" -> read_bitstring(ck, S, pos, c.lb, c.ub, c.ext)
      [] c.op = "octetstring" -> read_octetstring(ck, S, pos, c.lb, c.ub, c.ext)
      [] c.op = "semi_constrained_whole_number" ->
            read_semi_constrained_whole_number(ck, S, pos, c.a)
      [] c.op = "unconstrained_whole_number" -> read_unconstrained_whole_number(ck, S, pos)
      [] c.op = "2s_compliment_binary_integer" ->
            read_2s_compliment_binary_integer(S, pos, c.a)
      [] c.op = "non_negative_binary_integer" ->
            read_non_negative_binary_integer(ck, S, pos, c.lb, c.ub)

Init ==
    /\ checks \in BOOLEAN
    /\ writer = <<>>
    /\ log = <<>>
    /\ rpos = 0
    /\ rlen = 0
    /\ rlog = <<>>

\* the writer is in use: nothing was read yet and no call has panicked
Writing == rlog = <<>> /\ \A i \in 1..Len(log) : log[i].k # "panic"

\* one write call: the bits of its outcome r are appended, also when it failed
\* part-way; the reader over the written bits sees all of them
Written(c, r) ==
    /\ writer' = writer \o r.out
    /\ rlen' = BitLen(writer) + BitLen(r.out)
    /\ log' = Append(log, [call |-> c, k |-> r.k, e |-> r.e, ea |-> r.ea,
                           ret |-> r.ret, tr |-> r.tr,
                           start |-> BitLen(writer), bits |-> BitLen(r.out)])
    /\ UNCHANGED <<checks, rpos, rlog>>

Write(c) == Written(c, ApplyWrite(checks, c))

\* the reader is in use: every write call succeeded, no read has failed, and a
\* written value is still to be read
Reading ==
    /\ Len(rlog) < Len(log)
    /\ \A i \in 1..Len(log) : log[i].k = "ok"
    /\ \A i \in 1..Len(rlog) : rlog[i].k = "ok"

\* one read call: its outcome r is logged and the read position moves
ReadDone(r) ==
    /\ rlog' = Append(rlog, r)
    /\ rpos' = r.pos
    /\ UNCHANGED <<checks, writer, log, rlen>>

\* the read call that matches the next write call
Read(op) ==
    /\ Reading
    /\ log[Len(rlog) + 1].call.op = op
    /\ ReadDone(ApplyRead(checks, writer, rpos, log[Len(rlog) + 1].call))

(***************************************************************************)
(* Inputs                                                                  *)
(***************************************************************************)
MaxOps == 2             \* write calls of a session
MaxStd == 5             \* std_variants run over 0..MaxStd and some large values
MaxIndex == 8           \* indices run over 0..MaxIndex and some large values
MaxPat == 2             \* payload sources 0..MaxPat
MaxOff == 1             \* bit strings start at bit 0 or at bit 3 * k, k <= MaxOff

MinusW(n) == SubW(ToW(0), ToW(n)).w

Pats == 0..MaxPat
Offsets == {3 * k : k \in 0..MaxOff}

\* size constraints (lb?, ub?) with lb <= ub
SizeLower == {NoneW} \cup {Some(ToW(n)) : n \in {0, 1, 5, 20000, 65536}}
SizeUpper == {NoneW} \cup {Some(ToW(n)) : n \in {0, 5, 127, 20000, 65535, 65536, 70000}}
Sizes ==
    {s \in SizeLower \X SizeUpper :
        s[1] = NoneW \/ s[2] = NoneW \/ ULe(s[1][1], s[2][1])}

\* lengths around every branch of the length determinant and of the fragmentation
Lengths == {0, 1, 5, 127, 128, 16383, 16384, 20000, 65535, 65536, 65537, 70000,
            81920, 4194304}
\* bit strings of up to two fragments after the first 64K bits
BitLengths == {n \in Lengths : n <= 3 * LENGTH_64K}
LengthValues == {ToW(n) : n \in Lengths} \cup {I64_MAX, U64_MAX}

StdVariants == {ToW(n) : n \in 0..MaxStd} \cup {ToW(64), ToW(65), I64_MIN, U64_MAX}
Indices ==
    {ToW(n) : n \in 0..MaxIndex} \cup {ToW(n) : n \in {63, 64, 65, 68, 69, 128, 300, 70000}}
        \cup {I64_MAX, I64_MIN, U64_MAX}

\* i64 values, and ranges lb <= ub
WholeNumbers ==
    {I64_MIN, AddW(I64_MIN, ToW(1)).w, MinusW(16), MinusW(1), ToW(0), ToW(1), ToW(5),
     ToW(15), ToW(16), ToW(255), ToW(256), SubW(I64_MAX, ToW(1)).w, I64_MAX}
Ranges == {r \in WholeNumbers \X WholeNumbers : r[1] = r[2] \/ ILt(r[1], r[2])}

\* i64 values at the boundaries of the octet counts of two's complement
OctetBoundaries ==
    {<<0, 0, 0, 127>>, <<0, 0, 0, 128>>, <<0, 0, 0, 32767>>, <<0, 0, 0, 32768>>,
     <<0, 0, 127, 65535>>, <<0, 0, 128, 0>>, <<0, 0, 32767, 65535>>, <<0, 0, 32768, 0>>,
     <<0, 127, 65535, 65535>>, <<0, 128, 0, 0>>, <<0, 32767, 65535, 65535>>,
     <<0, 32768, 0, 0>>, <<127, 65535, 65535, 65535>>, <<128, 0, 0, 0>>}
UnconstrainedNumbers ==
    WholeNumbers \cup OctetBoundaries
        \cup {SubW(MinusW(1), w).w : w \in OctetBoundaries}

\* widths of a two's complement number
BitLens == {ToW(n) : n \in {0, 1, 7, 8, 9, 63, 64}}

\* the calls of one operation with arguments at the boundaries
BoundaryCalls(op) ==
    CASE op = "boolean" -> {boolean(b) : b \in BOOLEAN}
      [] op = "constrained_whole_number" ->
            {constrained_whole_number(r[1], r[2], v) : r \in Ranges, v \in WholeNumbers}
      [] op = "length_determinant" ->
            {length_determinant(s[1], s[2], v) : s \in Sizes, v \in LengthValues}
      [] op = "enumeration_index" ->
            {enumeration_index(n, x, i) : n \in StdVariants, x \in BOOLEAN, i \in Indices}
      [] op = "choice_index" ->
            {choice_index(n, x, i) : n \in StdVariants, x \in BOOLEAN, i \in Indices}
      [] op = "bitstring" ->
            {bitstring(s[1], s[2], x, p, o, n) :
                s \in Sizes, x \in BOOLEAN, p \in Pats, o \in Offsets, n \in BitLengths}
      [] op = "octetstring" ->
            {octetstring(s[1], s[2], x, p, n) :
                s \in Sizes, x \in BOOLEAN, p \in Pats, n \in Lengths}
      [] op = "semi_constrained_whole_number" ->
            {semi_constrained_whole_number(lb, v) : lb \in WholeNumbers, v \in WholeNumbers}
      [] op = "unconstrained_whole_number" ->
            {unconstrained_whole_number(v) : v \in UnconstrainedNumbers}
      [] op = "2s_compliment_binary_integer" ->
            {binary_integer_2s_compliment(n, v) : n \in BitLens, v \in WholeNumbers}

\* the calls of a session: a few of each operation
SessionCalls(op) ==
    CASE op = "boolean" -> {boolean(TRUE), boolean(FALSE)}
      [] op = "constrained_whole_number" ->
            {constrained_whole_number(ToW(0), ToW(15), ToW(5)),
             constrained_whole_number(MinusW(1), MinusW(1), MinusW(1))}
      [] op = "length_determinant" ->
            {length_determinant(NoneW, NoneW, ToW(n)) : n \in {127, 128, 16384}}
      [] op = "enumeration_index" ->
            {enumeration_index(ToW(3), TRUE, ToW(4)), enumeration_index(ToW(3), FALSE, ToW(3))}
      [] op = "choice_index" -> {choice_index(ToW(3), TRUE, ToW(70))}
      [] op = "bitstring" ->
            {bitstring(NoneW, NoneW, FALSE, MaxPat, 3, n) : n \in {5, 16384, 70000}}
                \cup {bitstring(Some(ToW(5)), Some(ToW(5)), TRUE, 0, 0, 5),
                      bitstring(Some(ToW(1)), NoneW, TRUE, 1, 0, 1)}
      [] op = "octetstring" ->
            {octetstring(NoneW, NoneW, FALSE, MaxPat, n) : n \in {3, 16384, 81920}}
                \cup {octetstring(Some(ToW(0)), Some(ToW(20000)), FALSE, 1, 16384)}
      [] op = "semi_constrained_whole_number" ->
            {semi_constrained_whole_number(ToW(0), ToW(200))}
      [] op = "unconstrained_whole_number" ->
            {unconstrained_whole_number(ToW(128)), unconstrained_whole_number(MinusW(1))}
      [] op = "2s_compliment_binary_integer" ->
            {binary_integer_2s_compliment(ToW(9), MinusW(1))}

(***************************************************************************)
(* Spec: sessions of up to MaxOps write calls, then the matching reads.    *)
(***************************************************************************)
SessionWrite(op) ==
    /\ Writing
    /\ Len(log) < MaxOps
    /\ \E c \in SessionCalls(op) : Write(c)

Next ==
    \/ SessionWrite("boolean")
    \/ SessionWrite("constrained_whole_number")
    \/ SessionWrite("length_determinant")
    \/ SessionWrite("enumeration_index")
    \/ SessionWrite("choice_index")
    \/ SessionWrite("bitstring")
    \/ SessionWrite("octetstring")
    \/ SessionWrite("semi_constrained_whole_number")
    \/ SessionWrite("unconstrained_whole_number")
    \/ SessionWrite("2s_compliment_binary_integer")
    \/ Read("boolean")
    \/ Read("constrained_whole_number")
    \/ Read("length_determinant")
    \/ Read("enumeration_index")
    \/ Read("choice_index")
    \/ Read("bitstring")
    \/ Read("octetstring")
    \/ Read("semi_constrained_whole_number")
    \/ Read("unconstrained_whole_number")
    \/ Read("2s_compliment_binary_integer")

Spec == Init /\ [][Next]_vars

(***************************************************************************)
(* SpecCall: one call of an operation on a fresh writer, with arguments at *)
(* the boundaries, and the matching read.                                  *)
(***************************************************************************)
FirstCall(op) ==
    /\ log = <<>>
    /\ \E c \in BoundaryCalls(op) : Write(c)

NextCall ==
    \/ FirstCall("boolean")
    \/ FirstCall("constrained_whole_number")
    \/ FirstCall("length_determinant")
    \/ FirstCall("enumeration_index")
    \/ FirstCall("choice_index")
    \/ FirstCall("bitstring")
    \/ FirstCall("octetstring")
    \/ FirstCall("semi_constrained_whole_number")
    \/ FirstCall("unconstrained_whole_number")
    \/ FirstCall("2s_compliment_binary_integer")
    \/ Read("boolean")
    \/ Read("constrained_whole_number")
    \/ Read("length_determinant")
    \/ Read("enumeration_index")
    \/ Read("choice_index")
    \/ Read("bitstring")
    \/ Read("octetstring")
    \/ Read("semi_constrained_whole_number")
    \/ Read("unconstrained_whole_number")
    \/ Read("2s_compliment_binary_integer")

SpecCall == Init /\ [][NextCall]_vars

(***************************************************************************)
(* SpecRead: a reader over received bits (a length determinant and content *)
(* bits), positioned anywhere, and one call on it.                         *)
(***************************************************************************)
MaxReads == 1           \* calls on a reader

ReadStep(s, n) == [s |-> s, n |-> n]
\* the closures given to with_read_position_at
Closures ==
    << <<>>,
       <<ReadStep("read_bit", 0)>>,
       <<ReadStep("read_bit", 0), ReadStep("read_bit", 0)>>,
       <<ReadStep("set_pos", 0)>>,
       <<ReadStep("set_pos", 200), ReadStep("read_bit", 0)>>,
       <<ReadStep("set_len", 200)>>,
       <<ReadStep("set_len", 4), ReadStep("read_bit", 0)>>,
       <<ReadStep("set_len", 0)>> >>
Positions == {0, 3, 8, 200}

\* f is a place in Closures
read_position_at(pos, f) ==
    Call("with_read_position_at", NoneW, NoneW, FALSE, ToW(0), ToW(0), ToW(0), f, pos, 0)

Received ==
    {write_length_determinant(FALSE, NoneW, NoneW, ToW(n)).out \o <<SrcSeg(p, 0, bits)>> :
        n \in {0, 8, 9, 128, 16384}, p \in Pats, bits \in {0, 64, 80}}

ReadCalls(op) ==
    CASE op = "2s_compliment_binary_integer" ->
            {binary_integer_2s_compliment(n, ToW(0)) :
                n \in BitLens \cup {ToW(65), ToW(128), I64_MIN, U64_MAX}}
      [] op = "non_negative_binary_integer" -> {non_negative_binary_integer(NoneW, NoneW)}
      [] op = "with_read_position_at" ->
            {read_position_at(pos, f) : pos \in {0, 200}, f \in 1..Len(Closures)}
      [] op = "boolean" -> {boolean(FALSE)}
      [] op = "length_determinant" -> {length_determinant(NoneW, NoneW, ToW(0))}
      [] op = "constrained_whole_number" ->
            {constrained_whole_number(ToW(0), ToW(n), ToW(0)) : n \in {5, 15}}
                \cup {constrained_whole_number(MinusW(1), ToW(1), ToW(0))}
      [] op = "enumeration_index" ->
            {enumeration_index(ToW(n), FALSE, ToW(0)) : n \in {1, 3, 4}}
                \cup {enumeration_index(ToW(3), TRUE, ToW(0))}
      [] op = "unconstrained_whole_number" -> {unconstrained_whole_number(ToW(0))}
      [] op = "bitstring" ->
            {bitstring(NoneW, NoneW, FALSE, 0, 0, 0),
             bitstring(Some(ToW(5)), Some(ToW(5)), TRUE, 0, 0, 0)}
      [] op = "octetstring" ->
            {octetstring(NoneW, NoneW, FALSE, 0, 0),
             octetstring(Some(ToW(5)), Some(ToW(5)), TRUE, 0, 0)}

\* the bits the reader sees
Visible == Slice(writer, 0, rlen)

InitRead ==
    /\ checks \in BOOLEAN
    /\ writer \in Received
    /\ log = <<>>
    /\ rpos = 0
    /\ rlen = BitLen(writer)
    /\ rlog = <<>>

\* the call c on the reader left it as R, with the outcome r
ReaderCalled(c, R, r) ==
    /\ log' = Append(log, [call |-> c, k |-> "ok", e |-> "", ea |-> <<>>, ret |-> NoneW,
                           tr |-> <<>>, start |-> rpos, bits |-> 0])
    /\ rlog' = Append(rlog, r)
    /\ rpos' = R.pos
    /\ rlen' = R.len
    /\ UNCHANGED <<checks, writer>>

Decoded(c, r) == ReaderCalled(c, [pos |-> r.pos, len |-> rlen], r)

Decode(op) ==
    /\ Len(log) < MaxReads
    /\ \E c \in ReadCalls(op) : Decoded(c, ApplyRead(checks, Visible, rpos, c))

Scoped(c, R) == ReaderCalled(c, R, OkR(R.pos, ToW(0)))

WithReadPositionAt ==
    /\ Len(log) < MaxReads
    /\ \E c \in ReadCalls("with_read_position_at") :
           Scoped(c, with_read_position_at([pos |-> rpos, len |-> rlen], BitLen(writer),
                                           c.off, Closures[c.pat]))

SetPos ==
    /\ log = <<>>
    /\ \E position \in Positions :
           /\ rpos' = set_pos([pos |-> rpos, len |-> rlen], position).pos
           /\ UNCHANGED <<checks, writer, log, rlen, rlog>>

NextRead ==
    \/ SetPos
    \/ Decode("2s_compliment_binary_integer")
    \/ Decode("non_negative_binary_integer")
    \/ WithReadPositionAt

SpecRead == InitRead /\ [][NextRead]_vars

(***************************************************************************)
(* SpecDecode: a reader over received bits of any content (every chunk     *)
(* header, length determinants with content that is complete or cut short, *)
(* strings in fragments), positioned anywhere, and the PackedRead calls.   *)
(***************************************************************************)
Encoded ==
    Received
        \cup {<<IntSeg(ToW(192 + m), 56, 8)>> : m \in 0..63}
        \cup {write_length_determinant(FALSE, NoneW, NoneW, ToW(LENGTH_16K)).out
                  \o <<SrcSeg(p, 0, unit * LENGTH_16K)>> \o tail :
                p \in Pats, unit \in {1, BYTE_LEN},
                tail \in {<<>>, <<IntSeg(ToW(1), 61, 3)>>}
                    \cup {write_length_determinant(FALSE, NoneW, NoneW, ToW(5)).out
                              \o <<SrcSeg(MaxPat, 0, bits)>> : bits \in {3, 40}}}

InitDecode ==
    /\ checks \in BOOLEAN
    /\ writer \in Encoded
    /\ log = <<>>
    /\ rpos = 0
    /\ rlen = BitLen(writer)
    /\ rlog = <<>>

NextDecode ==
    \/ SetPos
    \/ Decode("boolean")
    \/ Decode("non_negative_binary_integer")
    \/ Decode("constrained_whole_number")
    \/ Decode("unconstrained_whole_number")
    \/ Decode("length_determinant")
    \/ Decode("enumeration_index")
    \/ Decode("bitstring")
    \/ Decode("octetstring")

SpecDecode == InitDecode /\ [][NextDecode]_vars

(***************************************************************************)
(* SpecBuffer: any sequence of calls on one bit buffer, created empty:     *)
(* write_bit, read_bit, set_pos, set_len and with_read_position_at.  The   *)
(* log holds the last call only, with the read position it started at.     *)
(***************************************************************************)
MaxBits == 3            \* bits written to a buffer

\* bytes.len(): writes grow the byte run as needed
bytes_len(segs) == (BitLen(segs) + 7) \div 8

\* the call op(n) or op(n, f) left the bits W and the reader R, with the outcome r
BufferCalled(op, n, f, W, R, r) ==
    /\ writer' = W
    /\ log' = <<[call |-> Call(op, NoneW, NoneW, FALSE, ToW(0), ToW(0), ToW(0), f, n, 0),
                 k |-> "ok", e |-> "", ea |-> <<>>, ret |-> NoneW, tr |-> <<>>,
                 start |-> rpos, bits |-> BitLen(W) - BitLen(writer)]>>
    /\ rlog' = <<r>>
    /\ rpos' = R.pos
    /\ rlen' = R.len
    /\ UNCHANGED checks

\* a write appends; the visible length follows the write position or stays
BufferWriteBit ==
    /\ BitLen(writer) < MaxBits
    /\ \E bit \in BOOLEAN, len \in {rlen, BitLen(writer) + 1} :
           BufferCalled("write_bit", 0, 0, writer \o write_bit(bit),
                        [pos |-> rpos, len |-> len], OkR(rpos, ToW(0)))

BufferReadBit ==
    LET read(r) ==
            BufferCalled("read_bit", 0, 0, writer, [pos |-> r.pos, len |-> rlen], r)
    IN  read(read_bit(Visible, rpos))

BufferSetPos ==
    \E position \in 0..(MaxBits + 1) :
        LET set(R) == BufferCalled("set_pos", position, 0, writer, R, OkR(R.pos, ToW(R.pos)))
        IN  set(set_pos([pos |-> rpos, len |-> rlen], position))

BufferSetLen ==
    \E len \in 0..(MaxBits + 1) :
        LET set(R) == BufferCalled("set_len", len, 0, writer, R, OkR(R.pos, ToW(R.len)))
        IN  set(set_len([pos |-> rpos, len |-> rlen], BitLen(writer), len))

BufferWithReadPositionAt ==
    \E pos \in 0..(MaxBits + 1), f \in 1..Len(Closures) :
        LET called(R) ==
                BufferCalled("with_read_position_at", pos, f, writer, R, OkR(R.pos, ToW(0)))
        IN  called(with_read_position_at([pos |-> rpos, len |-> rlen], BitLen(writer),
                                         pos, Closures[f]))

NextBuffer ==
    \/ BufferWriteBit
    \/ BufferReadBit
    \/ BufferSetPos
    \/ BufferSetLen
    \/ BufferWithReadPositionAt

SpecBuffer == Init /\ [][NextBuffer]_vars

(***************************************************************************)
(* Properties.  Call i is log[i]; its read, once made, is rlog[i].         *)
(***************************************************************************)
CallsOf(ops) == {i \in 1..Len(log) : log[i].call.op \in ops}
ReadsOf(ops) == {i \in CallsOf(ops) : i <= Len(rlog)}

\* the n <= 64 bits that call i wrote from its bit p on, as a number in a word
WrittenWord(i, p, n) == WordAt(writer, log[i].start + p, n)
\* the bits that call i wrote from its bit p on
WrittenFrom(i, p) == Slice(writer, log[i].start + p, log[i].bits - p)
\* read i consumed exactly the bits that call i wrote
ConsumedWritten(i) == rlog[i].k = "ok" /\ rlog[i].pos = log[i].start + log[i].bits

IsBody(e) == e.ev = "body"
IsAnnounced(e) == e.ev = "ld" /\ e.chunk /\ e.n >= 16384

\* C1: after any sequence of write calls on an empty writer, every matching read
\* consumes exactly the bits its write appended, and no bit remains after the last
\* read.
C1_ReadsConsumeWrittenBits ==
    /\ \A i \in 1..Len(rlog) : ConsumedWritten(i)
    /\ (Len(log) > 0 /\ Len(rlog) = Len(log)) => rpos = BitLen(writer)

C3_ChunkSizeExactlyForChunkHeader ==
    \A i \in CallsOf({"length_determinant"}) :
        LET c == log[i].call
            chunked == c.lb = NoneW /\ c.ub = NoneW /\ ~ULt(c.v, ToW(16384))
        IN  /\ chunked =>
                /\ log[i].k = "ok"
                /\ WrittenWord(i, 0, 2) = ToW(3)
                /\ log[i].ret = Some(ToW(16384 * ToInt(WrittenWord(i, 2, 6))))
            /\ ~chunked => log[i].ret = NoneW

\* a chunk size was returned, and a call with bounds and a value of 16384 or more
\* returned none
C3_Witness ==
    /\ Len(log) = 1
    /\ log[1].call.op = "length_determinant"
    /\ log[1].k = "ok"
    /\ \/ log[1].ret = Some(ToW(65536))
       \/ /\ log[1].call.ub # NoneW /\ log[1].call.v = ToW(20000)
          /\ log[1].bits > 0 /\ log[1].ret = NoneW

\* C4: read_octetstring on the output of an accepted write_octetstring with the
\* same constraint returns the bytes written and consumes exactly the written bits.
C4_OctetstringRoundTrip ==
    \A i \in ReadsOf({"octetstring"}) :
        /\ ConsumedWritten(i)
        /\ rlog[i].buf_len = log[i].call.len
        /\ SameBits(rlog[i].segs, <<SrcSeg(log[i].call.pat, 0, 8 * log[i].call.len)>>)

\* C5: read_bitstring on the output of an accepted write_bitstring with the same
\* constraint returns the bit length len and the len bits written, and consumes
\* exactly the written bits.
C5_BitstringRoundTrip ==
    \A i \in ReadsOf({"bitstring"}) :
        /\ ConsumedWritten(i)
        /\ rlog[i].bit_len = log[i].call.len
        /\ SameBits(rlog[i].segs,
                    <<SrcSeg(log[i].call.pat, log[i].call.off, log[i].call.len)>>)

\* C6: in write_bitstring and write_octetstring a chunk-form length determinant
\* that announces 16384 units or more is followed by its body and another length
\* determinant, and the encoding ends with a determinant announcing fewer than
\* 16384 units and its body.
C6_ChunkIsFollowedByDeterminant ==
    \A i \in CallsOf({"bitstring", "octetstring"}) :
        log[i].k = "ok" =>
            LET tr == log[i].tr
            IN  \A j \in 1..Len(tr) :
                    IsAnnounced(tr[j]) =>
                        /\ j + 2 <= Len(tr)
                        /\ tr[j + 1].ev = "body" /\ tr[j + 2].ev = "ld"
                        /\ tr[Len(tr) - 1].ev = "ld" /\ tr[Len(tr) - 1].n < 16384
                        /\ tr[Len(tr)].ev = "body"

\* C7: in write_bitstring and write_octetstring the body after each length
\* determinant has the number of units the determinant announces, and the bodies
\* are, in order and without gap or overlap, the len units of the source from
\* offset on.
C7_PayloadWrittenOnceInOrder ==
    \A i \in CallsOf({"bitstring", "octetstring"}) :
        log[i].k = "ok" =>
            LET tr == log[i].tr
                bodies == SelectSeq(tr, IsBody)
                first == log[i].call.off
            IN  /\ \A j \in 1..Len(tr) :
                       tr[j].ev = "ld" =>
                           j < Len(tr) /\ tr[j + 1].ev = "body" /\ tr[j + 1].n = tr[j].n
                /\ \A j \in 1..Len(bodies) :
                       bodies[j].from =
                           IF j = 1 THEN first ELSE bodies[j - 1].from + bodies[j - 1].n
                /\ IF bodies = <<>> THEN log[i].call.len = 0
                   ELSE bodies[Len(bodies)].from + bodies[Len(bodies)].n
                            = first + log[i].call.len

\* C8: write_enumeration_index and write_choice_index write, when extensible, one
\* bit equal to (index >= std_variants); then for index >= std_variants the
\* normally-small length of index - std_variants when extensible, and otherwise
\* they fail with InvalidChoiceIndex(index, std_variants); for index <
\* std_variants they write index in the bits of std_variants - 1.  With 3 standard
\* variants, extensible, index 4 is written as 1 0 000001.
C8_EnumerationIndexEncoding ==
    \A i \in CallsOf({"enumeration_index", "choice_index"}) :
        LET c == log[i].call
            std_variants == c.a
            index == c.v
            e == IF c.ext THEN 1 ELSE 0
            n == 64 - leading_zeros(SubW(std_variants, ToW(1)).w)
        IN  /\ (c.ext /\ ~ULt(index, std_variants)) =>
                /\ log[i].k = "ok"
                /\ WrittenWord(i, 0, 1) = ToW(1)
                /\ SameBits(WrittenFrom(i, 1),
                            write_normally_small_length(
                                checks, SubW(index, std_variants).w).out)
            /\ (~c.ext /\ ~ULt(index, std_variants)) =>
                /\ log[i].k = "err" /\ log[i].e = "InvalidChoiceIndex"
                /\ log[i].ea = <<index, std_variants>>
                /\ log[i].bits = 0
            /\ ULt(index, std_variants) =>
                /\ log[i].k = "ok"
                /\ log[i].bits = e + n
                /\ c.ext => WrittenWord(i, 0, 1) = ToW(0)
                /\ WrittenWord(i, e, n) = index
            /\ (std_variants = ToW(3) /\ c.ext /\ index = ToW(4)) =>
                log[i].bits = 8 /\ WrittenWord(i, 0, 8) = ToW(129)

\* index 4 of an extensible enumeration of 3 standard variants was written as
\* 1 0 000001
C8_Witness ==
    /\ Len(log) = 1
    /\ log[1].call = enumeration_index(ToW(3), TRUE, ToW(4))
    /\ log[1].bits = 8 /\ WrittenWord(1, 0, 8) = ToW(129)

\* C9: for std_variants >= 1, read_enumeration_index on the output of an accepted
\* write_enumeration_index with the same std_variants and extensible returns the
\* index written and consumes exactly the written bits.
C9_EnumerationIndexRoundTrip ==
    \A i \in ReadsOf({"enumeration_index", "choice_index"}) :
        ULe(ToW(1), log[i].call.a) =>
            ConsumedWritten(i) /\ rlog[i].val = log[i].call.v

\* an index 64 or more above the standard variants was written and read back
C9_Witness ==
    /\ Len(rlog) = 1
    /\ log[1].call.op = "enumeration_index"
    /\ log[1].call.a = ToW(4) /\ log[1].call.v = ToW(68)
    /\ rlog[1].val = ToW(68)

\* C10: write_boolean appends the one bit of its value, and
\* write_constrained_whole_number(lb, ub, v) with lb <= v <= ub appends v - lb in
\* exactly the number of bits that ub - lb needs (none for lb = ub).
C10_BooleanAndConstrainedWholeNumberBits ==
    /\ \A i \in CallsOf({"boolean"}) :
           /\ log[i].k = "ok"
           /\ log[i].bits = 1
           /\ WrittenWord(i, 0, 1) = ToW(IF log[i].call.ext THEN 1 ELSE 0)
    /\ \A i \in CallsOf({"constrained_whole_number"}) :
           LET lb == log[i].call.a
               ub == log[i].call.b
               v == log[i].call.v
               n == 64 - leading_zeros(SubW(ub, lb).w)
           IN  (~ILt(v, lb) /\ ~ILt(ub, v)) =>
                   /\ log[i].k = "ok"
                   /\ log[i].bits = n
                   /\ WrittenWord(i, 0, n) = SubW(v, lb).w

\* the strings: the size of a unit in bits, the extension bit, the units written
Unit(c) == IF c.op = "bitstring" THEN 1 ELSE 8
ExtBits(c) == IF c.ext THEN 1 ELSE 0
Payload(c) == <<SrcSeg(c.pat, c.off, Unit(c) * c.len)>>
\* length < lb or length > ub, an absent lb counting as 0, an absent ub as unbounded
OutOfRange(c) ==
    \/ c.lb # NoneW /\ ULt(ToW(c.len), c.lb[1])
    \/ c.ub # NoneW /\ ULt(c.ub[1], ToW(c.len))
\* lb == ub < 65536
FixedSize(c) == c.lb # NoneW /\ c.lb = c.ub /\ ULt(c.ub[1], ToW(65536))

\* C11: for lb <= v <= ub, write_constrained_whole_number(lb, ub, v) succeeds and
\* writes at least one bit when ub > lb, and read_constrained_whole_number(lb, ub)
\* on its output returns v, over the whole signed 64-bit range.
C11_ConstrainedWholeNumberRoundTrip ==
    \A i \in CallsOf({"constrained_whole_number"}) :
        LET lb == log[i].call.a
            ub == log[i].call.b
            v == log[i].call.v
        IN  (~ILt(v, lb) /\ ~ILt(ub, v)) =>
                /\ log[i].k = "ok"
                /\ ILt(lb, ub) => log[i].bits > 0
                /\ i <= Len(rlog) => ConsumedWritten(i) /\ rlog[i].val = v

\* C13: write_bitstring and write_octetstring write, when extensible, a first bit
\* equal to out_of_range, followed for an out-of-range length by the length
\* determinant without bounds of the length; when not extensible they fail with
\* SizeNotInRange(length, lb, ub) on an out-of-range length.  The readers read the
\* extension bit exactly when extensible: an extensible read is the read without
\* extension (and, after a 1, without bounds) one bit further on, and a read that
\* is not extensible takes its length or its payload from the first bit.
C13_ExtensionBitAndSizeNotInRange ==
    /\ \A i \in CallsOf({"bitstring", "octetstring"}) :
           LET c == log[i].call
               ld == write_length_determinant(checks, NoneW, NoneW, ToW(c.len)).out
           IN  /\ c.ext =>
                   /\ log[i].bits >= 1
                   /\ WrittenWord(i, 0, 1) = ToW(IF OutOfRange(c) THEN 1 ELSE 0)
               /\ (c.ext /\ OutOfRange(c)) =>
                   /\ log[i].bits >= 1 + BitLen(ld)
                   /\ SameBits(Slice(writer, log[i].start + 1, BitLen(ld)), ld)
               /\ (~c.ext /\ OutOfRange(c)) =>
                   /\ log[i].k = "err" /\ log[i].e = "SizeNotInRange"
                   /\ log[i].ea = <<ToW(c.len), const_unwrap_or(c.lb, ToW(0)),
                                    const_unwrap_or(c.ub, I64_MAX)>>
                   /\ log[i].bits = 0
    /\ \A i \in ReadsOf({"bitstring", "octetstring"}) :
           LET c == log[i].call
               start == log[i].start
               plain == [c EXCEPT !.ext = FALSE]
               ld == read_length_determinant(checks, writer, start, c.lb, c.ub)
           IN  /\ c.ext =>
                   rlog[i] =
                       IF WrittenWord(i, 0, 1) = ToW(1)
                       THEN ApplyRead(checks, writer, start + 1,
                                      [plain EXCEPT !.lb = NoneW, !.ub = NoneW])
                       ELSE ApplyRead(checks, writer, start + 1, plain)
               /\ (~c.ext /\ FixedSize(c) /\ rlog[i].k = "ok") =>
                   rlog[i].segs = Slice(writer, start, Unit(c) * c.len)
               /\ (~c.ext /\ ~FixedSize(c) /\ c.ub # Some(ToW(0))) =>
                   /\ ld.k # "ok" => rlog[i] = ld
                   /\ (rlog[i].k = "ok" /\ ULt(ld.val, ToW(16384))) =>
                       /\ ld.k = "ok"
                       /\ rlog[i].segs = Slice(writer, ld.pos, Unit(c) * ToInt(ld.val))

\* an extensible octet string longer than its upper bound was written with the
\* extension bit 1 and the length 127 and read back
C13_Witness ==
    /\ Len(rlog) = 1
    /\ log[1].call.op = "octetstring"
    /\ log[1].call.ub = Some(ToW(5)) /\ log[1].call.len = 127 /\ log[1].call.ext
    /\ WrittenWord(1, 0, 9) = ToW(256 + 127)
    /\ rlog[1].k = "ok" /\ rlog[1].buf_len = 127

\* C14: with lb == ub < 65536 and the length in range, write_bitstring and
\* write_octetstring write the extension bit 0 if extensible and the ub payload
\* units and nothing else (no length determinant), and the readers consume exactly
\* these bits and return the ub units.
C14_FixedSizeCarriesNoLength ==
    \A i \in CallsOf({"bitstring", "octetstring"}) :
        LET c == log[i].call
            e == ExtBits(c)
        IN  (FixedSize(c) /\ ~OutOfRange(c)) =>
                /\ log[i].k = "ok"
                /\ log[i].bits = e + Unit(c) * ToInt(c.ub[1])
                /\ c.ext => WrittenWord(i, 0, 1) = ToW(0)
                /\ SameBits(WrittenFrom(i, e), Payload(c))
                /\ \A j \in 1..Len(log[i].tr) : log[i].tr[j].ev # "ld"
                /\ i <= Len(rlog) =>
                    /\ ConsumedWritten(i)
                    /\ SameBits(rlog[i].segs, Payload(c))
                    /\ c.op = "bitstring" => rlog[i].bit_len = ToInt(c.ub[1])
                    /\ c.op = "octetstring" => rlog[i].buf_len = ToInt(c.ub[1])

\* a bit string of the fixed size 20000 (above 16K) was written after the
\* extension bit and read back from 20001 bits
C14_Witness ==
    /\ Len(rlog) = 1
    /\ log[1].call.op = "bitstring"
    /\ log[1].call.lb = Some(ToW(20000)) /\ log[1].call.ub = Some(ToW(20000))
    /\ log[1].call.ext /\ log[1].call.len = 20000
    /\ log[1].bits = 20001
    /\ rlog[1].k = "ok" /\ rlog[1].pos = 20001 /\ rlog[1].bit_len = 20000

\* C15: write_octetstring with upper bound 0 and an empty src writes nothing but
\* the extension bit 0 if extensible, and read_octetstring with upper bound 0
\* returns the empty string after consuming the same number of bits.
C15_EmptyOctetstringWithUpperBoundZero ==
    \A i \in CallsOf({"octetstring"}) :
        LET c == log[i].call
        IN  (c.ub = Some(ToW(0)) /\ c.len = 0) =>
                /\ log[i].k = "ok"
                /\ log[i].bits = ExtBits(c)
                /\ c.ext => WrittenWord(i, 0, 1) = ToW(0)
                /\ i <= Len(rlog) =>
                    /\ ConsumedWritten(i)
                    /\ rlog[i].segs = <<>> /\ rlog[i].buf_len = 0

\* an empty extensible octet string with upper bound 0 was written as the one bit 0
\* and read back
C15_Witness ==
    /\ Len(rlog) = 1
    /\ log[1].call.op = "octetstring"
    /\ log[1].call.ub = Some(ToW(0)) /\ log[1].call.len = 0 /\ log[1].call.ext
    /\ log[1].bits = 1
    /\ rlog[1].k = "ok" /\ rlog[1].pos = 1

\* C19: write_length_determinant with a bound given and ub >= 65536 (an absent ub
\* counting as i64::MAX) writes nothing for lb == ub, and the reader returns lb; for
\* every other lb <= value <= ub it succeeds and read_length_determinant(lb, ub) on
\* its output returns value.
C19_BoundedLengthDeterminantRoundTrip ==
    \A i \in CallsOf({"length_determinant"}) :
        LET c == log[i].call
            lb == const_unwrap_or(c.lb, ToW(0))
            ub == const_unwrap_or(c.ub, I64_MAX)
        IN  ((c.lb # NoneW \/ c.ub # NoneW) /\ ULe(ToW(65536), ub)) =>
                IF c.lb = c.ub
                THEN /\ log[i].k = "ok" /\ log[i].bits = 0
                     /\ i <= Len(rlog) => ConsumedWritten(i) /\ rlog[i].val = lb
                ELSE (ULe(lb, c.v) /\ ULe(c.v, ub)) =>
                         /\ log[i].k = "ok"
                         /\ i <= Len(rlog) => ConsumedWritten(i) /\ rlog[i].val = c.v

\* C12: write_constrained_whole_number(lb, ub, v) fails with
\* ValueNotInRange(v, lb, ub) whenever v < lb or v > ub, also for lb == ub, and
\* write_semi_constrained_whole_number(lb, v) fails with ValueNotInRange whenever
\* v < lb.
C12_RangeViolationIsValueNotInRange ==
    /\ \A i \in CallsOf({"constrained_whole_number"}) :
           LET lb == log[i].call.a
               ub == log[i].call.b
               v == log[i].call.v
           IN  (ILt(v, lb) \/ ILt(ub, v)) =>
                   /\ log[i].k = "err" /\ log[i].e = "ValueNotInRange"
                   /\ log[i].ea = <<v, lb, ub>>
    /\ \A i \in CallsOf({"semi_constrained_whole_number"}) :
           ILt(log[i].call.v, log[i].call.a) =>
               log[i].k = "err" /\ log[i].e = "ValueNotInRange"

\* the two's complement representation of n octets holds v: the bits above the low
\* 8n - 1 bits all equal the sign
HoldsIn(v, n) == \A j \in 0..(64 - 8 * n) : WBit(v, j) = WBit(v, 0)

\* C18: write_unconstrained_whole_number(v) writes the length determinant n and the
\* low n octets of v, n the smallest number of octets (1..8) whose two's complement
\* representation holds v, and read_unconstrained_whole_number on that output
\* returns v.
C18_UnconstrainedWholeNumberRoundTrip ==
    \A i \in CallsOf({"unconstrained_whole_number"}) :
        LET v == log[i].call.v
            n == CHOOSE k \in 1..8 : HoldsIn(v, k) /\ \A m \in 1..(k - 1) : ~HoldsIn(v, m)
        IN  /\ log[i].k = "ok"
            /\ log[i].bits = 8 + 8 * n
            /\ WrittenWord(i, 0, 8) = ToW(n)
            /\ \A j \in 0..(8 * n - 1) :
                   BitAt(writer, log[i].start + 8 + j) = WBit(v, 64 - 8 * n + j)
            /\ i <= Len(rlog) => ConsumedWritten(i) /\ rlog[i].val = v

\* -129 was written as the length 2 and the octets FF 7F, and read back
C18_Witness ==
    /\ Len(rlog) = 1
    /\ log[1].call = unconstrained_whole_number(MinusW(129))
    /\ log[1].bits = 24 /\ WrittenWord(1, 0, 24) = ToW(2 * 65536 + 65407)
    /\ rlog[1].k = "ok" /\ rlog[1].val = MinusW(129)

\* C16: read_2s_compliment_binary_integer(bit_len) fails with
\* BitLenNotInRange(bit_len, 1, 64) without consuming a bit exactly when bit_len is
\* 0 or above 64; for 1 <= bit_len <= 64, with bit_len bits to read, it consumes
\* exactly these bits and returns them with the first of them, the sign, repeated
\* over the bits above.
C16_TwosComplimentBinaryInteger ==
    \A i \in CallsOf({"2s_compliment_binary_integer"}) :
        i <= Len(rlog) =>
            LET bit_len == log[i].call.a
                start == log[i].start
                n == ToInt(bit_len)
                r == rlog[i]
            IN  IF bit_len = ToW(0) \/ ULt(ToW(64), bit_len)
                THEN /\ r.k = "err" /\ r.e = "BitLenNotInRange"
                     /\ r.ea = <<bit_len, ToW(1), ToW(64)>>
                     /\ r.pos = start
                ELSE /\ ~(r.k = "err" /\ r.e = "BitLenNotInRange")
                     /\ start + n <= rlen =>
                         /\ r.k = "ok" /\ r.pos = start + n
                         /\ \A j \in 0..63 :
                                WBit(r.val, j) =
                                    BitAt(writer, IF j < 64 - n THEN start
                                                  ELSE start + j - (64 - n))

\* the nine bits 1 1111 1111 were read as -1
C16_Witness ==
    /\ Len(rlog) = 1
    /\ log[1].call.op = "2s_compliment_binary_integer"
    /\ log[1].call.a = ToW(9)
    /\ rlog[1].k = "ok" /\ rlog[1].val = MinusW(1) /\ rlog[1].pos = log[1].start + 9

\* C17: read_non_negative_binary_integer with no bounds reads a length determinant
\* L; for L > 8 it fails with LengthDeterminantExceedsLimit(L, 8) where the length
\* determinant ends, and for L <= 8, with 8 L bits to read, it consumes them and
\* returns their big-endian value.
C17_UnconstrainedLengthLimit ==
    \A i \in CallsOf({"non_negative_binary_integer"}) :
        (i <= Len(rlog) /\ log[i].call.lb = NoneW /\ log[i].call.ub = NoneW) =>
            LET L == read_length_determinant(checks, Visible, log[i].start, NoneW, NoneW)
                r == rlog[i]
            IN  L.k = "ok" =>
                    IF ULt(ToW(8), L.val)
                    THEN /\ r.k = "err" /\ r.e = "LengthDeterminantExceedsLimit"
                         /\ r.ea = <<L.val, ToW(8)>>
                         /\ r.pos = L.pos
                    ELSE (L.pos + 8 * ToInt(L.val) <= rlen) =>
                             /\ r.k = "ok"
                             /\ r.pos = L.pos + 8 * ToInt(L.val)
                             /\ r.val = WordAt(writer, L.pos, 8 * ToInt(L.val))

\* a length of 9 octets was refused after its 8 bits, with content to read behind
C17_Witness ==
    /\ Len(rlog) = 1
    /\ log[1].call.op = "non_negative_binary_integer"
    /\ log[1].start = 0 /\ WrittenWord(1, 0, 8) = ToW(9) /\ rlen >= 80
    /\ rlog[1].e = "LengthDeterminantExceedsLimit" /\ rlog[1].pos = 8

\* C20: with_read_position_at(pos, f) leaves the read position where it was before
\* the call, for every pos and every closure f.
C20_ReadPositionRestored ==
    \A i \in CallsOf({"with_read_position_at"}) :
        i <= Len(rlog) => rlog[i].pos = log[i].start

LdStops(s) ==
    LET rem == rlen - s
    IN  IF rem = 0 THEN <<TRUE, s>>
        ELSE IF BitAt(writer, s) = 0
        THEN IF rem < 8 THEN <<TRUE, s + 1>> ELSE <<FALSE, s + 8>>
        ELSE IF rem = 1 THEN <<TRUE, s + 1>>
        ELSE IF BitAt(writer, s + 1) = 0
        THEN IF rem < 16 THEN <<TRUE, s + 2>> ELSE <<FALSE, s + 16>>
        ELSE IF rem < 8 THEN <<TRUE, s + 2>> ELSE <<FALSE, s + 8>>

\* C22: when a primitive bit read fails inside a PackedRead operation, the
\* operation returns that error, EndOfStream, unchanged, and the read position is
\* where the failing primitive read started: the bits read before stay consumed
\* and no further bit is consumed.
C22_ReadFailureSemantics ==
    \A i \in 1..Len(rlog) :
        LET c == log[i].call
            s == log[i].start
            r == rlog[i]
            eos(p) == ErrR("EndOfStream", <<>>, p)
            unbounded == c.lb = NoneW /\ c.ub = NoneW /\ ~c.ext
            L == read_length_determinant(checks, Visible, s, NoneW, NoneW)
            octets == 8 * ToInt(L.val)
            units == Unit(c) * ToInt(L.val)
            width(range) == 64 - leading_zeros(range)
        IN  /\ (r.k = "err" /\ r.e = "EndOfStream") =>
                   r.ea = <<>> /\ s <= r.pos /\ r.pos <= rlen
            /\ (c.op = "boolean" /\ s = rlen) => r = eos(s)
            /\ (c.op = "length_determinant" /\ unbounded) =>
                   /\ (r.k = "err") = LdStops(s)[1]
                   /\ r.pos = LdStops(s)[2]
                   /\ r.k = "err" => r = eos(r.pos)
            /\ (c.op \in {"non_negative_binary_integer", "unconstrained_whole_number",
                           "bitstring", "octetstring"} /\ unbounded /\ L.k = "err") =>
                   r = L
            /\ (c.op = "non_negative_binary_integer" /\ unbounded /\ L.k = "ok"
                    /\ ULe(L.val, ToW(8)) /\ L.pos + octets > rlen) =>
                   r = eos(L.pos)
            /\ (c.op = "unconstrained_whole_number" /\ L.k = "ok"
                    /\ ULe(ToW(1), L.val) /\ ULe(L.val, ToW(8)) /\ L.pos + octets > rlen) =>
                   r = eos(L.pos)
            /\ (c.op \in {"bitstring", "octetstring"} /\ unbounded /\ L.k = "ok") =>
                   /\ L.pos + units > rlen => r = eos(L.pos)
                   /\ (L.pos + units <= rlen /\ ~ULt(L.val, ToW(16384))
                          /\ LdStops(L.pos + units)[1]) =>
                          r = eos(LdStops(L.pos + units)[2])
            /\ (c.op \in {"bitstring", "octetstring"} /\ c.ext /\ s = rlen) => r = eos(s)
            /\ (c.op = "constrained_whole_number"
                    /\ rlen - s < width(SubW(c.b, c.a).w)) =>
                   r = eos(s)
            /\ (c.op = "enumeration_index" /\ ~c.ext
                    /\ rlen - s < width(SubW(c.a, ToW(1)).w)) =>
                   r = eos(s)
            /\ (c.op = "enumeration_index" /\ c.ext /\ s < rlen /\ BitAt(writer, s) = 0
                    /\ rlen - (s + 1) < width(SubW(c.a, ToW(1)).w)) =>
                   r = eos(s + 1)

\* read_octetstring read the length 16384 and the 16384 octets, and failed on the
\* length determinant that follows, of which only three bits are there, after its
\* first bit
C22_Witness ==
    /\ Len(rlog) = 1 /\ log[1].call.op = "octetstring" /\ log[1].start = 0
    /\ rlen = 8 + 8 * 16384 + 3
    /\ rlog[1].k = "err" /\ rlog[1].e = "EndOfStream" /\ rlog[1].pos = 8 + 8 * 16384 + 1

C24_ChunkMultiplierIsClamped ==
    \A i \in CallsOf({"length_determinant"}) :
        LET c == log[i].call
            s == log[i].start
            m == ToInt(WordAt(writer, s + 2, 6))
        IN  (i <= Len(rlog) /\ c.lb = NoneW /\ c.ub = NoneW /\ s + 8 <= rlen
                /\ WordAt(writer, s, 2) = ToW(3)) =>
                /\ rlog[i].k = "ok"
                /\ rlog[i].pos = s + 8
                /\ rlog[i].val = ToW(16384 * (IF m < 4 THEN m ELSE 4))

\* the chunk header with the multiplier 63 was read as the length 65536
C24_Witness ==
    /\ Len(rlog) = 1 /\ log[1].call.op = "length_determinant" /\ log[1].start = 0
    /\ WordAt(writer, 0, 8) = ToW(255)
    /\ rlog[1].k = "ok" /\ rlog[1].val = ToW(65536) /\ rlog[1].pos = 8

\* C25: read_bitstring and read_octetstring read a length determinant after the
\* payload exactly when the first length was read in the form without bounds and
\* is 16384 or more; a first length that was read from a constrained length
\* determinant (a bound given), or that is the fixed size, is followed by its
\* payload and nothing else, whatever its value.
C25_FollowUpOnlyAfterUnboundedChunk ==
    \A i \in ReadsOf({"bitstring", "octetstring"}) :
        LET c == log[i].call
            s == log[i].start
            r == rlog[i]
            extended == c.ext /\ BitAt(writer, s) = 1
            constrained == ~extended /\ (c.lb # NoneW \/ c.ub # NoneW)
            L == IF extended
                 THEN read_length_determinant(checks, writer, s + 1, NoneW, NoneW)
                 ELSE IF FixedSize(c) THEN OkR(s + ExtBits(c), c.ub[1])
                 ELSE read_length_determinant(checks, writer, s + ExtBits(c), c.lb, c.ub)
            units == Unit(c) * ToInt(L.val)
            payload_only == r.k = "ok" /\ r.pos = L.pos + units
        IN  (/\ L.k = "ok"
             /\ ULe(L.val, ToW(BitLen(writer)))
             /\ L.pos + units <= BitLen(writer)
             /\ ~(c.op = "octetstring" /\ ~extended /\ c.ub = Some(ToW(0)))) =>
                IF constrained \/ ULt(L.val, ToW(16384))
                THEN payload_only /\ SameBits(r.segs, Slice(writer, L.pos, units))
                ELSE ~payload_only

\* the fragments of a bit string encoding found at pos of S: length determinants
\* without bounds, each followed by as many bits as it says, up to the first
\* length below 16384; ok is FALSE when the bits of S end before the fragments do
RECURSIVE FragmentsAt(_, _, _, _)
FragmentsAt(S, pos, segs, bit_len) ==
    LET ld == read_length_determinant(FALSE, S, pos, NoneW, NoneW)
        n == ToInt(ld.val)
        from(p) ==
            IF n < LENGTH_16K
            THEN [ok |-> TRUE, pos |-> p + n, segs |-> segs \o Slice(S, p, n),
                  bit_len |-> bit_len + n, fragments |-> 1]
            ELSE LET rest == FragmentsAt(S, p + n, segs \o Slice(S, p, n), bit_len + n)
                 IN  [rest EXCEPT !.fragments = @ + 1]
    IN  IF ld.k # "ok" \/ ~ULe(ld.val, ToW(BitLen(S))) \/ ld.pos + n > BitLen(S)
        THEN [ok |-> FALSE, pos |-> pos, segs |-> segs, bit_len |-> bit_len,
              fragments |-> 0]
        ELSE from(ld.pos)

\* C26: read_bitstring on a fragmented encoding (a first length without bounds of
\* 16384 or more, then further fragments up to one shorter than 16384) returns
\* the sum of the fragment lengths as the bit length and a buffer of
\* ceil(bit length / 8) bytes holding the bits of the fragments one after the
\* other, and stops behind the last fragment.
C26_FragmentedBitstringIsConcatenated ==
    \A i \in ReadsOf({"bitstring"}) :
        LET c == log[i].call
            s == log[i].start
            r == rlog[i]
            extended == c.ext /\ BitAt(writer, s) = 1
            F == FragmentsAt(writer, s + ExtBits(c), <<>>, 0)
        IN  (/\ extended \/ (c.lb = NoneW /\ c.ub = NoneW)
             /\ F.ok /\ F.fragments >= 2) =>
                /\ r.k = "ok"
                /\ r.pos = F.pos
                /\ r.bit_len = F.bit_len
                /\ r.buf_len = (F.bit_len + 7) \div 8
                /\ SameBits(r.segs, F.segs)

\* C27: write_length_determinant with no bounds and a value of 16384 or more
\* writes `11` and the multiplier m = min(floor(value / 16384), 4) in six bits,
\* so 1 <= m <= 4, and returns Some(16384 * m), for every 64-bit value, also when
\* floor(value / 16384) is 256 or more.
C27_ChunkMultiplierOfEveryValue ==
    \A i \in CallsOf({"length_determinant"}) :
        LET c == log[i].call
            quotient == ShiftRight(c.v, 14)
            m == IF ULt(quotient, ToW(MAX_FRAGMENTS)) THEN ToInt(quotient)
                 ELSE MAX_FRAGMENTS
        IN  (c.lb = NoneW /\ c.ub = NoneW /\ ULe(ToW(LENGTH_16K), c.v)) =>
                /\ log[i].k = "ok"
                /\ log[i].bits = 8
                /\ WrittenWord(i, 0, 2) = ToW(3)
                /\ WrittenWord(i, 2, 6) = ToW(m)
                /\ 1 <= m /\ m <= 4
                /\ log[i].ret = Some(ToW(LENGTH_16K * m))

\* C28: a PackedWrite call that returns ValueNotInRange, SizeNotInRange or
\* InvalidChoiceIndex has appended no bit to the writer: neither an extension
\* bit nor a length determinant nor payload was written before the check.
C28_ConstraintErrorWritesNothing ==
    \A i \in 1..Len(log) :
        (log[i].k = "err"
            /\ log[i].e \in {"ValueNotInRange", "SizeNotInRange", "InvalidChoiceIndex"}) =>
            /\ log[i].bits = 0
            /\ log[i].tr = <<>>

\* write_constrained_whole_number(0, 5, 15) returned ValueNotInRange(15, 0, 5) and
\* the writer is still empty
C28_Witness ==
    /\ Len(log) = 1
    /\ log[1].call = constrained_whole_number(ToW(0), ToW(5), ToW(15))
    /\ log[1].k = "err" /\ log[1].e = "ValueNotInRange"
    /\ log[1].ea = <<ToW(15), ToW(0), ToW(5)>>
    /\ writer = <<>>

\* C29: for every bit pattern read, a value that read_constrained_whole_number(lb,
\* ub) returns lies in lb..ub, and an index that read_enumeration_index(
\* std_variants, false) returns is below std_variants, also when the number of
\* values is not a power of two.
C29_DecodedValuesRespectConstraint ==
    \A i \in ReadsOf({"constrained_whole_number", "enumeration_index"}) :
        LET c == log[i].call
            r == rlog[i]
        IN  r.k = "ok" =>
                IF c.op = "constrained_whole_number"
                THEN ~ILt(r.val, c.a) /\ ~ILt(c.b, r.val)
                ELSE ~c.ext => ULt(r.val, c.a)

\* C30: the fragmentation loops end.  write_bitstring and write_octetstring
\* write at most one length determinant for the first part and one for every
\* further 16384 units of the payload, plus a last one; read_bitstring and
\* read_octetstring end on every written buffer with a value or with an error.
C30_FragmentationLoopsTerminate ==
    /\ \A i \in CallsOf({"bitstring", "octetstring"}) :
           Len(SelectSeq(log[i].tr, LAMBDA e : e.ev = "ld"))
               <= 2 + log[i].call.len \div LENGTH_16K
    /\ \A i \in ReadsOf({"bitstring", "octetstring"}) : rlog[i].k \in {"ok", "err"}

====
